---- MODULE Spec2Model ----
(***************************************************************************)
(* Unified tracing facade and log-to-trace correlation of the             *)
(* observability package: the stateful Observability container            *)
(* (observability.go), the pooled unifiedSpan / unifiedTracer (trace.go), *)
(* the cloning StartSpan wrappers (span.go) and the apmHandler            *)
(* correlation handler behind Log (log.go, traceLogLevel-gated version).  *)
(***************************************************************************)
EXTENDS Integers, Sequences, FiniteSets, TLC

\* ---------------------------------------------------------------- bounds
MaxChains == 2      \* concurrent call chains (goroutines)
MaxSpans == 3       \* native spans started in one run
MaxHandles == 2     \* unifiedSpan objects ever created by the pool's New
MaxObs == 3         \* Observability containers (the original and clones)
MaxShutdowners == 3 \* constituents of one compositeShutdowner
MaxInitCalls == 2   \* initLogger calls made by one call chain
MaxOptions == 1     \* functional options passed to one NewFactory
MaxEnvVars == 2     \* OBS_ variables set in the process environment
MaxAttrs == 3       \* attributes of one record handed to extractError
MaxRecords == 3     \* distinct records handed to the asynchronous handler
IntBits == 5        \* width of the integers, standing for 64

\* ------------------------------------------------------------- constants
OTLP == "otlp"
Datadog == "datadog"
None == "none"
APMTypes == {OTLP, Datadog, None}

LevelDebug == 0 - 4
LevelInfo == 0
LevelWarn == 4
LevelError == 8
Levels == {LevelDebug, LevelInfo, LevelWarn, LevelError}

Chains == 1..MaxChains
SpanIds == 1..MaxSpans
HandleIds == 1..MaxHandles
ObsIds == 1..MaxObs

NoSpan == 0         \* no native span (nil interface / no span in ctx)
NoObs == 0          \* nil *Observability
NoOpHandle == 0     \* the &noOpSpan{} handle
Background == << >> \* context.Background()
NilCtx == <<0>>     \* a nil context.Context field

VARIABLES
    apmType,        \* Trace.apmType / apmHandler.apmType
    logLevel,       \* slog.HandlerOptions.Level of the wrapped JSON sink
    traceLogLevel,  \* apmHandler.traceLogLevel
    obsCtx,         \* Observability.ctx of every container (NilCtx: not built)
    handles,        \* fields of every unifiedSpan object
    created,        \* unifiedSpan objects made by unifiedSpanPool.New
    pool,           \* objects currently inside unifiedSpanPool
    held,           \* Span handles each call chain holds and has not ended
    spans,          \* the native spans of the backend
    nextSpan,       \* number of native spans started
    last,           \* what the last operation was given, returned and called
    hist,           \* history: ambient context at each Start, End order so far
    calls,          \* position and locals of each chain's Start or End in progress
    shutdowners,    \* compositeShutdowner.shutdowners
    environ,        \* the process environment read by os.Getenv
    factoryConfig,  \* Factory.config
    initOnce,       \* the package's initOnce (sync.Once)
    baseLogger,     \* the package's baseLogger
    slogDefault,    \* the logger installed by slog.SetDefault
    initCalls,      \* position, arguments and result of each chain's initLogger
    records,        \* asyncHandler.records, the buffered channel
    ret             \* what the last call outside the tracer was given and returned

\* The tracing facade and the correlation handler.
tracing == <<apmType, logLevel, traceLogLevel, obsCtx, handles, created, pool,
             held, spans, nextSpan, last, hist, calls>>

\* Factory, logger registration, asynchronous handler and shutdown.
shutdownVars == <<shutdowners>>
factoryVars == <<environ, factoryConfig>>
loggerVars == <<initOnce, baseLogger, slogDefault, initCalls>>
asyncVars == <<records>>
others == <<shutdownVars, factoryVars, loggerVars, asyncVars, ret>>

vars == <<tracing, others>>

config == <<apmType, logLevel, traceLogLevel>>

\* ------------------------------------------------------------- contexts
\* A context is the chain of values it was derived with: the request root of
\* a call chain (-g) followed by the spans stored into it, innermost last.
RootCtx(g) == <<0 - g>>

\* trace.SpanFromContext / tracer.SpanFromContext: the innermost span.
SpanFromContext(ctx) ==
    LET P == {i \in 1..Len(ctx) : ctx[i] > 0}
    IN  IF P = {} THEN NoSpan ELSE ctx[CHOOSE i \in P : \A j \in P : j <= i]

\* ctxWithObs(ctx, obs): context.WithValue(ctx, obsKey{}, obs); the entry
\* of container o lies below the request roots.
ObsEntry(o) == 0 - (MaxChains + o)

ctxWithObs(ctx, o) == Append(ctx, ObsEntry(o))

\* ctx.Value(obsKey{}) in ObsFromCtx(ctx): the innermost container stored
\* in ctx; NoObs stands for the `ok == false` branch.
ObsValue(ctx) ==
    LET P == {i \in 1..Len(ctx) : ctx[i] < 0 - MaxChains}
    IN  IF P = {} THEN NoObs
        ELSE 0 - ctx[CHOOSE i \in P : \A j \in P : j <= i] - MaxChains

\* context.WithValue(ctx, spanKey, s), done by both backends' start.
ContextWithSpan(ctx, s) == Append(ctx, s)

ZeroHandle == [span |-> NoSpan, obs |-> NoObs, parentCtx |-> NilCtx]

ZeroSpan == [kind |-> None, parent |-> NoSpan, trace |-> 0, chain |-> 0,
             recording |-> FALSE, ended |-> FALSE, ctx |-> NilCtx]

\* No Start or End of the chain is in progress.
NoCall == [op |-> "none", i |-> 0, h |-> 0, o |-> 0, span |-> 0,
           argCtx |-> <<0>>, parentCtx |-> <<0>>, reused |-> FALSE,
           got |-> [span |-> 0, obs |-> 0, parentCtx |-> <<0>>]]

NoLast == [kind |-> "idle", chain |-> 0, obs |-> NoObs, clone |-> NoObs,
           argCtx |-> NilCtx, retCtx |-> NilCtx, ambient |-> NilCtx,
           handle |-> NoOpHandle, span |-> NoSpan, method |-> "",
           level |-> LevelInfo, attrs |-> << >>, enabled |-> FALSE,
           ops |-> << >>, sink |-> << >>, order |-> << >>]

\* No call outside the tracer has been made.
NoRet == [op |-> "none", returned |-> TRUE]

\* The caller of the last call got control back.
Returned == ret.returned

\* The package-level state when the process starts: no composite shutdowner
\* built, nothing registered, no factory, no asynchronous handler.
NoLogger == [handler |-> "nil"]

NoRecords == [made |-> FALSE, buf |-> << >>, closed |-> FALSE,
              worker |-> "none", waiting |-> {}, derived |-> << >>]
NoConfig == [built |-> FALSE]

\* sync.Once before its first Do.
NewOnce == [state |-> "new", owner |-> 0, args |-> << >>]

\* A call chain that is not inside initLogger.
NoInitCall == [pc |-> "idle", n |-> 0, args |-> << >>]

\* The fields of factoryConfig.
Settings ==
    {"ServiceName", "ServiceApp", "ServiceEnv", "ApmType", "MetricsType",
     "ApmURL", "LogSource", "SampleRate", "LogLevel", "TraceLogLevel",
     "AsynchronousLogs"}

\* The type of a setting: string, bool, float64 or slog.Level. The two
\* backend-selection strings are kept as character sequences ("chars").
Kind(k) ==
    CASE k \in {"ApmType", "MetricsType"} -> "chars"
      [] k \in {"LogSource", "AsynchronousLogs"} -> "bool"
      [] k = "SampleRate" -> "float"
      [] k \in {"LogLevel", "TraceLogLevel"} -> "level"
      [] OTHER -> "string"

\* The empty string of os.Getenv for a variable that is not set.
EmptyString(k) == IF Kind(k) = "chars" THEN << >> ELSE ""

ProcessStart ==
    /\ shutdowners = << >>
    /\ environ = [k \in Settings |-> EmptyString(k)]
    /\ factoryConfig = NoConfig
    /\ initOnce = NewOnce
    /\ baseLogger = NoLogger
    /\ slogDefault = NoLogger
    /\ initCalls = [g \in Chains |-> NoInitCall]
    /\ records = NoRecords
    /\ ret = NoRet

\* ----------------------------------------------------------- constructor
\* NewObservability(ctx, ...): one container holding the context it was given.
TracingStart ==
    /\ apmType \in APMTypes
    /\ logLevel \in Levels
    /\ traceLogLevel \in Levels
    /\ obsCtx = [o \in ObsIds |-> IF o = 1 THEN Background ELSE NilCtx]
    /\ handles = [h \in HandleIds |-> ZeroHandle]
    /\ created = {}
    /\ pool = {}
    /\ held = [g \in Chains |-> {}]
    /\ spans = [s \in SpanIds |-> ZeroSpan]
    /\ nextSpan = 0
    /\ last = NoLast
    /\ hist = [ambient |-> [s \in SpanIds |-> NilCtx], lifo |-> TRUE]
    /\ calls = [g \in Chains |-> NoCall]

\* The process at start: one container, nothing else set up.
Init == TracingStart /\ ProcessStart

Built(o) == obsCtx[o] # NilCtx

\* Observability.Context()
Context(o) == obsCtx[o]

\* Observability.SetContext(ctx)
SetContext(o, ctx) == [obsCtx EXCEPT ![o] = ctx]

\* Contexts a call chain can pass to an operation: its request root, the
\* ambient context of a container, and the contexts returned to it by the
\* Start calls whose handles it still holds.
KnownCtx(g) ==
    {RootCtx(g)} \cup {obsCtx[o] : o \in {x \in ObsIds : Built(x)}}
        \cup {spans[handles[h].span].ctx :
                h \in {x \in held[g] \ {NoOpHandle} : handles[x].span # NoSpan}}

\* Spans started and not ended; span ids grow in the order of the Starts.
Live == {s \in 1..nextSpan : ~spans[s].ended}

Innermost == CHOOSE s \in Live : \A t \in Live : t <= s

\* History kept at a Start: the ambient context the new span was started in.
HistStart(o) == [hist EXCEPT !.ambient[nextSpan + 1] = Context(o)]

\* History kept at an End: whether every End so far ended the span started
\* last among the live ones.
HistEnd(s) == [hist EXCEPT !.lifo = @ /\ s = Innermost]

\* ------------------------------------------------------------ the tracer
\* A tracer that never takes the disabled branch.
IsDisabled_never == FALSE

\* unifiedTracer.Start: the disabled backend is answered before anything else.
IsDisabled == apmType = None

\* A Start that captures the context it was called with as the parent.
StartParentCtx_caller(o, ctx) == ctx

\* unifiedTracer.Start: parentCtx := t.obs.Context()
StartParentCtx(o, ctx) == Context(o)

\* A pool that hands out any object it ever made, also one still in use.
PoolGet_inUse ==
    created \cup (IF Cardinality(created) < MaxHandles
                  THEN {Cardinality(created) + 1} ELSE {})

\* unifiedSpanPool.Get(): an object lying in the pool or, when the pool
\* hands out none, one made by New.
PoolGet ==
    pool \cup (IF Cardinality(created) < MaxHandles
               THEN {Cardinality(created) + 1} ELSE {})

\* Sampling decision of the OTLP TracerProvider (TraceIDRatioBased): taken on
\* the trace id, so a child shares the decision of its parent.
Sampled(parent) ==
    IF apmType # OTLP THEN {TRUE}
    ELSE IF parent = NoSpan THEN BOOLEAN ELSE {spans[parent].recording}

\* tracer.StartSpanFromContext / trace.Tracer.Start: a new native span, child
\* of the span stored in ctx, and the context derived from ctx that holds it.
NativeStart(g, ctx, s, rec) ==
    [kind |-> apmType,
     parent |-> SpanFromContext(ctx),
     trace |-> IF SpanFromContext(ctx) = NoSpan THEN s
               ELSE spans[SpanFromContext(ctx)].trace,
     chain |-> g,
     recording |-> rec,
     ended |-> FALSE,
     ctx |-> ContextWithSpan(ctx, s)]

\* The state change of unifiedTracer.Start(ctx, name) on container o's
\* tracer for an enabled backend, returning handle h and a context.
StartEnabled(g, o, ctx, h, rec) ==
    LET s == nextSpan + 1
    IN  /\ spans' = [spans EXCEPT ![s] = NativeStart(g, ctx, s, rec)]
        /\ nextSpan' = s
        /\ handles' = [handles EXCEPT ![h] =
                          [span |-> s, obs |-> o,
                           parentCtx |-> StartParentCtx(o, ctx)]]
        /\ created' = created \cup {h}
        /\ pool' = pool \ {h}
        /\ held' = [held EXCEPT ![g] = @ \cup {h}]

\* unifiedTracer.Start(ctx, spanName) called on the tracer of container o.
Start(g, o, ctx) ==
    /\ UNCHANGED <<others, calls>>
    /\ Built(o)
    /\ IF IsDisabled
       THEN /\ held' = [held EXCEPT ![g] = @ \cup {NoOpHandle}]
            /\ last' = [NoLast EXCEPT !.kind = "Start", !.chain = g, !.obs = o,
                           !.argCtx = ctx, !.retCtx = ctx,
                           !.ambient = Context(o), !.handle = NoOpHandle]
            /\ UNCHANGED <<obsCtx, handles, created, pool, spans, nextSpan,
                           hist>>
       ELSE /\ nextSpan < MaxSpans
            /\ \E h \in PoolGet, rec \in Sampled(SpanFromContext(ctx)) :
                 /\ StartEnabled(g, o, ctx, h, rec)
                 /\ hist' = HistStart(o)
                 /\ obsCtx' = SetContext(o, ContextWithSpan(ctx, nextSpan + 1))
                 /\ last' = [NoLast EXCEPT !.kind = "Start", !.chain = g,
                                !.obs = o, !.argCtx = ctx,
                                !.retCtx = ContextWithSpan(ctx, nextSpan + 1),
                                !.ambient = Context(o), !.handle = h,
                                !.span = nextSpan + 1]
    /\ UNCHANGED config

\* An End that leaves the container's context as it is.
EndRestore_keep(h) == Context(handles[h].obs)

\* unifiedSpan.End: the context written back into the owning container.
EndRestore(h) == handles[h].parentCtx

\* unifiedSpan.End() on a handle the chain holds and has not ended yet.
End(g, h) ==
    /\ UNCHANGED <<others, calls>>
    /\ h \in held[g] \ {NoOpHandle}
    /\ LET o == handles[h].obs
           s == handles[h].span
       IN  /\ obsCtx' = SetContext(o, EndRestore(h))
           /\ spans' = [spans EXCEPT ![s].ended = TRUE]
           /\ handles' = [handles EXCEPT ![h] = ZeroHandle]
           /\ pool' = pool \cup {h}
           /\ held' = [held EXCEPT ![g] = @ \ {h}]
           /\ hist' = HistEnd(s)
           /\ last' = [NoLast EXCEPT !.kind = "End", !.chain = g, !.obs = o,
                          !.ambient = Context(o), !.handle = h, !.span = s,
                          !.retCtx = EndRestore(h)]
    /\ UNCHANGED <<config, created, nextSpan>>

\* ------------------------------------------- Start and End step by step
\* An End that returns the object to the pool before anything else.
EndSteps_putFirst == <<"put", "restore", "finish", "clear">>

\* The statements of unifiedSpan.End in the order of the code:
\* s.obs.SetContext(s.parentCtx); span.End() / span.Finish(); the three
\* fields set to nil; unifiedSpanPool.Put(s).
EndSteps == <<"restore", "finish", "clear", "put">>

\* Starts that have passed their first statement and not yet made the
\* native span.
StartsBeforeSpan == {g \in Chains : calls[g].op = "Start" /\ calls[g].i <= 4}

\* unifiedTracer.Start(ctx, name) on container o, first statement of the
\* enabled branch: parentCtx := t.obs.Context().
StartCall(g, o) ==
    /\ calls[g].op = "none"
    /\ Built(o)
    /\ ~IsDisabled
    /\ nextSpan + Cardinality(StartsBeforeSpan) < MaxSpans
    /\ calls' = [calls EXCEPT ![g] =
                    [NoCall EXCEPT !.op = "Start", !.i = 2, !.o = o,
                                   !.argCtx = Context(o),
                                   !.parentCtx = StartParentCtx(o, Context(o))]]
    /\ UNCHANGED <<config, obsCtx, handles, created, pool, held, spans,
                   nextSpan, last, hist, others>>

\* The next statement of the Start of chain g: unifiedSpanPool.Get(); the
\* writes of span.obs and span.parentCtx; the native start and the write of
\* span.span; t.obs.SetContext(newCtx) and the return.
StartStep(g) ==
    /\ calls[g].op = "Start"
    /\ LET c == calls[g]
           s == nextSpan + 1
       IN  CASE c.i = 2 ->
                  \E h \in PoolGet :
                     /\ pool' = pool \ {h}
                     /\ created' = created \cup {h}
                     /\ calls' = [calls EXCEPT ![g].i = 3, ![g].h = h,
                                                ![g].got = handles[h],
                                                ![g].reused = h \in created]
                     /\ UNCHANGED <<obsCtx, handles, held, spans, nextSpan,
                                    hist>>
             [] c.i = 3 ->
                  /\ handles' = [handles EXCEPT ![c.h].obs = c.o,
                                                 ![c.h].parentCtx = c.parentCtx]
                  /\ calls' = [calls EXCEPT ![g].i = 4]
                  /\ UNCHANGED <<obsCtx, created, pool, held, spans, nextSpan,
                                 hist>>
             [] c.i = 4 ->
                  \E rec \in Sampled(SpanFromContext(c.argCtx)) :
                     /\ spans' = [spans EXCEPT ![s] =
                                     NativeStart(g, c.argCtx, s, rec)]
                     /\ nextSpan' = s
                     /\ handles' = [handles EXCEPT ![c.h].span = s]
                     /\ hist' = [hist EXCEPT !.ambient[s] = c.parentCtx]
                     /\ calls' = [calls EXCEPT ![g].i = 5, ![g].span = s]
                     /\ UNCHANGED <<obsCtx, created, pool, held>>
             [] OTHER ->
                  /\ obsCtx' = SetContext(c.o, ContextWithSpan(c.argCtx, c.span))
                  /\ held' = [held EXCEPT ![g] = @ \cup {c.h}]
                  /\ calls' = [calls EXCEPT ![g] =
                                  [c EXCEPT !.op = "none", !.i = 0]]
                  /\ UNCHANGED <<handles, created, pool, spans, nextSpan, hist>>
    /\ UNCHANGED <<config, last, others>>

\* unifiedSpan.End() entered by chain g on a handle it holds.
EndCall(g, h) ==
    /\ calls[g].op = "none"
    /\ h \in held[g] \ {NoOpHandle}
    /\ held' = [held EXCEPT ![g] = @ \ {h}]
    /\ calls' = [calls EXCEPT ![g] =
                    [NoCall EXCEPT !.op = "End", !.i = 1, !.h = h,
                                   !.o = handles[h].obs,
                                   !.span = handles[h].span]]
    /\ UNCHANGED <<config, obsCtx, handles, created, pool, spans, nextSpan,
                   last, hist, others>>

\* The next statement of the End of chain g, each reading the fields of the
\* object as they are at that moment.
EndStep(g) ==
    /\ calls[g].op = "End"
    /\ LET c == calls[g]
           f == handles[c.h]
           step == EndSteps[c.i]
       IN  /\ CASE step = "restore" ->
                      /\ obsCtx' = IF f.obs = NoObs THEN obsCtx
                                   ELSE SetContext(f.obs, f.parentCtx)
                      /\ UNCHANGED <<handles, pool, spans>>
                 [] step = "finish" ->
                      /\ spans' = IF f.span = NoSpan THEN spans
                                  ELSE [spans EXCEPT ![f.span].ended = TRUE]
                      /\ UNCHANGED <<obsCtx, handles, pool>>
                 [] step = "clear" ->
                      /\ handles' = [handles EXCEPT ![c.h] = ZeroHandle]
                      /\ UNCHANGED <<obsCtx, pool, spans>>
                 [] OTHER ->
                      /\ pool' = pool \cup {c.h}
                      /\ UNCHANGED <<obsCtx, handles, spans>>
           /\ calls' = [calls EXCEPT ![g] =
                           IF c.i = Len(EndSteps)
                           THEN [c EXCEPT !.op = "none", !.i = 0,
                                          !.parentCtx = IF step = "restore"
                                                        THEN f.parentCtx ELSE @]
                           ELSE [c EXCEPT !.i = @ + 1,
                                          !.parentCtx = IF step = "restore"
                                                        THEN f.parentCtx ELSE @]]
    /\ UNCHANGED <<config, created, held, nextSpan, last, hist, others>>

\* ------------------------------------------------- methods of a handle
SpanMethods == {"AddEvent", "RecordError", "SetStatus", "SetAttributes"}

\* The reserved tag a semantic operation is written to on the tag-only
\* backend (unifiedSpan.AddEvent / RecordError / SetStatus / SetAttributes).
TagKey(m) ==
    CASE m = "AddEvent" -> "event"
      [] m = "RecordError" -> "error"
      [] m = "SetStatus" -> "status"
      [] OTHER -> "attr"

OpCall(s, op, key, val) ==
    [span |-> s, op |-> op, key |-> key, val |-> val, attrs |-> << >>]

\* The native calls one method of unifiedSpan makes: the type switch on s.span.
UnifiedSpanCall(h, m) ==
    LET s == handles[h].span
    IN  IF s = NoSpan THEN << >>
        ELSE IF spans[s].kind = OTLP THEN <<OpCall(s, m, "", "x")>>
        ELSE IF spans[s].kind = Datadog
             THEN <<OpCall(s, "SetTag", TagKey(m), "x")>>
        ELSE << >>

\* AddEvent / RecordError / SetStatus / SetAttributes on a unifiedSpan.
SpanMethod(g, h, m) ==
    /\ UNCHANGED <<others, calls>>
    /\ h \in held[g] \ {NoOpHandle}
    /\ last' = [NoLast EXCEPT !.kind = "SpanMethod", !.chain = g,
                   !.obs = handles[h].obs, !.handle = h,
                   !.span = handles[h].span, !.method = m,
                   !.ops = UnifiedSpanCall(h, m)]
    /\ UNCHANGED <<config, obsCtx, handles, created, pool, held, spans,
                   nextSpan, hist>>

\* End / AddEvent / RecordError / SetStatus / SetAttributes on a noOpSpan.
NoOpMethod(g, m) ==
    /\ UNCHANGED <<others, calls>>
    /\ NoOpHandle \in held[g]
    /\ last' = [NoLast EXCEPT !.kind = "NoOpMethod", !.chain = g,
                   !.handle = NoOpHandle, !.method = m, !.ops = << >>]
    /\ UNCHANGED <<config, obsCtx, handles, created, pool, held, spans,
                   nextSpan, hist>>

\* ------------------------------------------------ the cloning wrappers
\* Observability.clone(ctx): a new container holding ctx, with its own Trace,
\* Log and ErrorHandler pointing at the new container.
FreeObs == {o \in ObsIds : ~Built(o)}

clone(base, o2, ctx) == [base EXCEPT ![o2] = ctx]

\* Observability.StartSpan(name, attrs) / StartSpanWith(name, attrs...):
\* o.Trace.Start(o.ctx, name), then o.clone(ctx).
StartSpan(g, o) ==
    /\ UNCHANGED <<others, calls>>
    /\ Built(o)
    /\ \E o2 \in FreeObs :
         IF IsDisabled
         THEN /\ obsCtx' = clone(obsCtx, o2, Context(o))
              /\ held' = [held EXCEPT ![g] = @ \cup {NoOpHandle}]
              /\ last' = [NoLast EXCEPT !.kind = "StartSpan", !.chain = g,
                             !.obs = o, !.clone = o2, !.argCtx = Context(o),
                             !.retCtx = Context(o), !.ambient = Context(o),
                             !.handle = NoOpHandle]
              /\ UNCHANGED <<handles, created, pool, spans, nextSpan, hist>>
         ELSE /\ nextSpan < MaxSpans
              /\ \E h \in PoolGet, rec \in Sampled(SpanFromContext(Context(o))) :
                   LET newCtx == ContextWithSpan(Context(o), nextSpan + 1)
                   IN  /\ StartEnabled(g, o, Context(o), h, rec)
                       /\ hist' = HistStart(o)
                       /\ obsCtx' = clone(SetContext(o, newCtx), o2, newCtx)
                       /\ last' = [NoLast EXCEPT !.kind = "StartSpan",
                                      !.chain = g, !.obs = o, !.clone = o2,
                                      !.argCtx = Context(o), !.retCtx = newCtx,
                                      !.ambient = Context(o), !.handle = h,
                                      !.span = nextSpan + 1]
    /\ UNCHANGED config

\* A span started on container o under its context and the clone made for
\* it: the tail shared by StartSpan and StartSpanWith.
StartAndClone(g, o, parent, o2, h, rec) ==
    LET s == nextSpan + 1
        newCtx == ContextWithSpan(parent, s)
    IN  /\ spans' = [spans EXCEPT ![s] = NativeStart(g, parent, s, rec)]
        /\ nextSpan' = s
        /\ handles' = [handles EXCEPT ![h] =
                          [span |-> s, obs |-> o, parentCtx |-> parent]]
        /\ created' = created \cup {h}
        /\ pool' = pool \ {h}
        /\ held' = [held EXCEPT ![g] = @ \cup {h}]
        /\ hist' = [hist EXCEPT !.ambient[s] = parent]
        /\ obsCtx' = [obsCtx EXCEPT ![o] = newCtx, ![o2] = newCtx]

\* Factory.StartSpanFromRequest(r) for the request of chain g: the
\* extracted request context, NewObservability on it, StartSpanWith, and
\* ctx = ctxWithObs(ctx, obs) with the clone StartSpanWith returned.
StartSpanFromRequest(g) ==
    /\ UNCHANGED <<others, calls>>
    /\ \E o \in FreeObs : \E o2 \in FreeObs \ {o} :
         LET ctx == RootCtx(g)
         IN  IF IsDisabled
             THEN /\ obsCtx' = [obsCtx EXCEPT ![o] = ctx, ![o2] = ctx]
                  /\ held' = [held EXCEPT ![g] = @ \cup {NoOpHandle}]
                  /\ last' = [NoLast EXCEPT !.kind = "StartSpanFromRequest",
                                 !.chain = g, !.obs = o, !.clone = o2,
                                 !.argCtx = ctx, !.retCtx = ctxWithObs(ctx, o2),
                                 !.ambient = ctx, !.handle = NoOpHandle]
                  /\ UNCHANGED <<handles, created, pool, spans, nextSpan,
                                 hist>>
             ELSE /\ nextSpan < MaxSpans
                  /\ \E h \in PoolGet, rec \in Sampled(SpanFromContext(ctx)) :
                       /\ StartAndClone(g, o, ctx, o2, h, rec)
                       /\ last' = [NoLast EXCEPT
                                      !.kind = "StartSpanFromRequest",
                                      !.chain = g, !.obs = o, !.clone = o2,
                                      !.argCtx = ctx,
                                      !.retCtx = ctxWithObs(
                                          ContextWithSpan(ctx, nextSpan + 1), o2),
                                      !.ambient = ctx, !.handle = h,
                                      !.span = nextSpan + 1]
    /\ UNCHANGED config

\* StartSpanFromCtx(ctx, name, attrs) and StartSpanFromCtxWith: obs :=
\* ObsFromCtx(ctx), then obs.StartSpan / obs.StartSpanWith, which start
\* under obs.ctx and return the new context and the clone. When ctx holds
\* no container, ObsFromCtx makes a disabled one on context.Background().
StartSpanFromCtx(g, ctx) ==
    /\ UNCHANGED <<others, calls>>
    /\ LET found == ObsValue(ctx)
       IN  IF found = NoObs \/ IsDisabled
           THEN \E o \in IF found = NoObs THEN FreeObs ELSE {found} :
                \E o2 \in FreeObs \ {o} :
                   LET own == IF found = NoObs THEN Background ELSE Context(o)
                   IN  /\ obsCtx' = [obsCtx EXCEPT ![o] = own, ![o2] = own]
                       /\ held' = [held EXCEPT ![g] = @ \cup {NoOpHandle}]
                       /\ last' = [NoLast EXCEPT !.kind = "StartSpanFromCtx",
                                      !.chain = g, !.obs = o, !.clone = o2,
                                      !.argCtx = ctx, !.retCtx = own,
                                      !.ambient = own, !.handle = NoOpHandle]
                       /\ UNCHANGED <<handles, created, pool, spans, nextSpan,
                                      hist>>
           ELSE /\ nextSpan < MaxSpans
                /\ \E o2 \in FreeObs, h \in PoolGet,
                      rec \in Sampled(SpanFromContext(Context(found))) :
                     /\ StartAndClone(g, found, Context(found), o2, h, rec)
                     /\ last' = [NoLast EXCEPT !.kind = "StartSpanFromCtx",
                                    !.chain = g, !.obs = found, !.clone = o2,
                                    !.argCtx = ctx,
                                    !.retCtx = ContextWithSpan(Context(found),
                                                               nextSpan + 1),
                                    !.ambient = Context(found), !.handle = h,
                                    !.span = nextSpan + 1]
    /\ UNCHANGED config

\* Sequences over S of length at most n.
SeqsUpTo(S, n) == UNION {[1..k -> S] : k \in 0..n}

\* ------------------------------------------------- the correlation handler
\* Attribute lists of the records logged: none, an error under the
\* conventional key, a non-error value under that key, another key, and an
\* error that is not the first attribute.
ErrAttr == [key |-> "error", kind |-> "error", val |-> "boom"]
TextAttr == [key |-> "error", kind |-> "string", val |-> "text"]
UserAttr == [key |-> "user", kind |-> "string", val |-> "u1"]

AttrSeqs == {<< >>, <<ErrAttr>>, <<TextAttr>>, <<UserAttr>>,
             <<UserAttr, ErrAttr>>}

Message == "failure"

\* slog.NewRecord(time.Now(), level, msg, 0) followed by r.Add / r.AddAttrs.
NewRecord(level, attrs) == [level |-> level, msg |-> Message, attrs |-> attrs]

\* TraceID().String() / SpanID().String() of the OTLP span context (hex) and
\* TraceID() / strconv.FormatUint(SpanID(), 10) of the Datadog span context.
HexString(n) == "0x" \o ToString(n)
DecString(n) == "#" \o ToString(n)

\* apmHandler.getTraceSpanID(ctx)
getTraceSpanID(ctx) ==
    LET s == SpanFromContext(ctx)
    IN  IF apmType = None THEN <<"", "">>
        ELSE IF apmType = OTLP
             THEN <<IF s # NoSpan THEN HexString(spans[s].trace) ELSE "",
                    IF s # NoSpan THEN HexString(s) ELSE "">>
        ELSE IF s # NoSpan THEN <<DecString(spans[s].trace), DecString(s)>>
        ELSE <<"", "">>

StringAttr(k, v) == [key |-> k, kind |-> "string", val |-> v]

\* A handler that appends both ids without looking at them.
AddCorrelation_always(r, ids) ==
    [r EXCEPT !.attrs = @ \o <<StringAttr("trace.id", ids[1]),
                                StringAttr("span.id", ids[2])>>]

\* r.AddAttrs(slog.String("trace.id", traceID)) / ("span.id", spanID), each
\* only for a non-empty id.
AddCorrelation(r, ids) ==
    LET a1 == IF ids[1] # "" THEN Append(r.attrs, StringAttr("trace.id", ids[1]))
              ELSE r.attrs
        a2 == IF ids[2] # "" THEN Append(a1, StringAttr("span.id", ids[2]))
              ELSE a1
    IN  [r EXCEPT !.attrs = a2]

\* extractError(r): the first "error" attribute that holds an error value,
\* otherwise errors.New(r.Message).
\* A test of the key alone.
ErrorAttrs_anyValue(r) == {i \in 1..Len(r.attrs) : r.attrs[i].key = "error"}

ErrorAttrs(r) ==
    {i \in 1..Len(r.attrs) :
        r.attrs[i].key = "error" /\ r.attrs[i].kind = "error"}

\* A nil error, and errors.New(text).
NilError == "<nil>"

ErrorsNew(text) == "errors.New(" \o text \o ")"

\* loggedErr after the r.Attrs loop of extractError, which stops at the
\* first match.
LoggedErr(r) ==
    IF ErrorAttrs(r) # {}
    THEN r.attrs[CHOOSE i \in ErrorAttrs(r) : \A j \in ErrorAttrs(r) : i <= j].val
    ELSE NilError

extractError(r) ==
    IF LoggedErr(r) = NilError THEN ErrorsNew(r.msg) ELSE LoggedErr(r)

\* The records handed to extractError: any message, and up to MaxAttrs
\* attributes among errors and texts under the key "error" and under
\* another key.
Err2Attr == [key |-> "error", kind |-> "error", val |-> "second"]
UserErrAttr == [key |-> "user", kind |-> "error", val |-> "other"]

ErrorRecords ==
    {[level |-> LevelError, msg |-> m, attrs |-> a] :
        m \in {"", Message},
        a \in SeqsUpTo({ErrAttr, Err2Attr, TextAttr, UserAttr, UserErrAttr},
                       MaxAttrs)}

\* extractError(r) called by a handler.
ExtractError(r) ==
    /\ Returned
    /\ ret' = [op |-> "extractError", returned |-> TRUE, rec |-> r,
               result |-> extractError(r)]
    /\ UNCHANGED <<tracing, shutdownVars, factoryVars, loggerVars, asyncVars>>

\* handleOTLP: the loop of toOtelAttribute over slogAttrs. A string stays a
\* string attribute; an error value has no kind of its own and becomes a
\* string attribute holding its text.
OtelAttrs(attrs) ==
    [i \in 1..Len(attrs) |->
        [key |-> attrs[i].key, kind |-> "STRING", val |-> attrs[i].val]]

\* trace.WithAttributes(otelAttrs...) on a call.
WithAttributes(call, otelAttrs) == [call EXCEPT !.attrs = otelAttrs]

\* apmHandler.handleOTLP(ctx, r, slogAttrs): the calls made on the span.
handleOTLP(ctx, r) ==
    LET s == SpanFromContext(ctx)
    IN  IF s = NoSpan \/ ~spans[s].recording \/ spans[s].ended THEN << >>
        ELSE IF r.level >= LevelError
             THEN <<WithAttributes(OpCall(s, "RecordError", "", extractError(r)),
                                   OtelAttrs(r.attrs)),
                    OpCall(s, "SetStatus", "Error", r.msg)>>
        ELSE <<WithAttributes(OpCall(s, "AddEvent", "", r.msg),
                              OtelAttrs(r.attrs))>>

\* apmHandler.handleDatadog(ctx, r, attrs): the tag writes made on the span.
handleDatadog(ctx, r) ==
    LET s == SpanFromContext(ctx)
    IN  IF s = NoSpan THEN << >>
        ELSE [i \in 1..Len(r.attrs) |->
                 OpCall(s, "SetTag", r.attrs[i].key, r.attrs[i].val)]
             \o (IF r.level >= LevelError
                 THEN <<OpCall(s, "SetTag", "error", extractError(r))>>
                 ELSE <<OpCall(s, "SetTag", "event", r.msg)>>)

\* A handler without the severity gate.
AttachGate_open(r) == TRUE

\* apmHandler.Handle: "Only attach to spans if the level is high enough."
AttachGate(r) == r.level >= traceLogLevel

\* apmHandler.Handle: the span calls of one record (r already correlated).
Attach(ctx, r) ==
    IF ~AttachGate(r) THEN << >>
    ELSE IF apmType = OTLP THEN handleOTLP(ctx, r)
    ELSE IF apmType = Datadog THEN handleDatadog(ctx, r)
    ELSE << >>

\* A handler that returns after a successful attachment.
SinkWrite_unlessAttached(ctx, r) == IF Attach(ctx, r) # << >> THEN << >> ELSE <<r>>

\* apmHandler.Handle: return h.Handler.Handle(ctx, r), the write of the
\* wrapped JSON sink.
SinkWrite(ctx, r) == <<r>>

\* apmHandler.Handle(ctx, r): the span calls made, the records written, and
\* the order of both: correlation, then the attachment switch, then the sink.
HandleResult(ctx, r) ==
    LET r1 == AddCorrelation(r, getTraceSpanID(ctx))
        a == Attach(ctx, r1)
        w == SinkWrite(ctx, r1)
    IN  [ops |-> a, sink |-> w,
         order |-> [i \in 1..Len(a) |-> "span"] \o [i \in 1..Len(w) |-> "sink"]]

\* apmHandler.Handle(ctx, r) called with a context of the caller's choice.
Handle(g, ctx, level, attrs) ==
    /\ UNCHANGED <<others, calls>>
    /\ LET res == HandleResult(ctx, NewRecord(level, attrs))
       IN  last' = [NoLast EXCEPT !.kind = "Handle", !.chain = g,
                       !.argCtx = ctx, !.span = SpanFromContext(ctx),
                       !.level = level, !.attrs = attrs, !.enabled = TRUE,
                       !.ops = res.ops, !.sink = res.sink,
                       !.order = res.order]
    /\ UNCHANGED <<config, obsCtx, handles, created, pool, held, spans,
                   nextSpan, hist>>

\* Log.getCtx()
getCtx(o) == Context(o)

\* apmHandler.Enabled(ctx, level): the wrapped sink's minimum level.
Enabled(level) == level >= logLevel

\* Log.Logc(level, depth, msg, args...) and Log.LogWithAttrs on the Log of
\* container o (Debug / Info / Warn / Error call Logc).
Logc(g, o, level, attrs) ==
    /\ UNCHANGED <<others, calls>>
    /\ Built(o)
    /\ LET ctx == getCtx(o)
           res == IF Enabled(level)
                  THEN HandleResult(ctx, NewRecord(level, attrs))
                  ELSE [ops |-> << >>, sink |-> << >>, order |-> << >>]
       IN  last' = [NoLast EXCEPT !.kind = "Logc", !.chain = g, !.obs = o,
                       !.argCtx = ctx, !.ambient = Context(o),
                       !.span = SpanFromContext(ctx),
                       !.level = level, !.attrs = attrs,
                       !.enabled = Enabled(level),
                       !.ops = res.ops, !.sink = res.sink,
                       !.order = res.order]
    /\ UNCHANGED <<config, obsCtx, handles, created, pool, held, spans,
                   nextSpan, hist>>

\* ErrorHandler.Record(span, err, msg) on the ErrorHandler of container o:
\* span.RecordError(err), span.SetStatus(codes.Error, msg), then
\* h.obs.Log.Error(msg, "error", err).
Record(g, o, h) ==
    /\ UNCHANGED <<others, calls>>
    /\ Built(o)
    /\ h \in held[g] \ {NoOpHandle}
    /\ LET ctx == getCtx(o)
           res == IF Enabled(LevelError)
                  THEN HandleResult(ctx, NewRecord(LevelError, <<ErrAttr>>))
                  ELSE [ops |-> << >>, sink |-> << >>, order |-> << >>]
           own == UnifiedSpanCall(h, "RecordError")
                  \o UnifiedSpanCall(h, "SetStatus")
       IN  last' = [NoLast EXCEPT !.kind = "Record", !.chain = g, !.obs = o,
                       !.argCtx = ctx, !.ambient = Context(o), !.handle = h,
                       !.span = handles[h].span, !.method = "span, err, msg",
                       !.level = LevelError, !.attrs = <<ErrAttr>>,
                       !.enabled = Enabled(LevelError),
                       !.ops = own \o res.ops, !.sink = res.sink,
                       !.order = [i \in 1..Len(own) |-> "span"] \o res.order]
    /\ UNCHANGED <<config, obsCtx, handles, created, pool, held, spans,
                   nextSpan, hist>>

\* ErrorHandler.Record(err, msg) of the builds whose Record only logs:
\* h.obs.Log.Error(msg, "error", err).
RecordLogOnly(g, o) ==
    /\ UNCHANGED <<others, calls>>
    /\ Built(o)
    /\ LET ctx == getCtx(o)
           res == IF Enabled(LevelError)
                  THEN HandleResult(ctx, NewRecord(LevelError, <<ErrAttr>>))
                  ELSE [ops |-> << >>, sink |-> << >>, order |-> << >>]
       IN  last' = [NoLast EXCEPT !.kind = "Record", !.chain = g, !.obs = o,
                       !.argCtx = ctx, !.ambient = Context(o),
                       !.span = SpanFromContext(ctx), !.method = "err, msg",
                       !.level = LevelError, !.attrs = <<ErrAttr>>,
                       !.enabled = Enabled(LevelError),
                       !.ops = res.ops, !.sink = res.sink,
                       !.order = res.order]
    /\ UNCHANGED <<config, obsCtx, handles, created, pool, held, spans,
                   nextSpan, hist>>

\* ------------------------------------------------- backend selection
\* A Go string is the sequence of its characters; the letters that occur in
\* the inputs, in both cases.
LowerLetters == <<"a", "d", "e", "g", "j", "l", "n", "o", "p", "r", "t", "x">>

UpperLetters == <<"A", "D", "E", "G", "J", "L", "N", "O", "P", "R", "T", "X">>

\* unicode.ToUpper of a lower-case letter.
ToUpperRune(c) ==
    IF \E i \in 1..Len(LowerLetters) : LowerLetters[i] = c
    THEN UpperLetters[CHOOSE i \in 1..Len(LowerLetters) : LowerLetters[i] = c]
    ELSE c

\* A lowering that leaves every character as it is.
ToLowerRune_asIs(c) == c

\* unicode.ToLower: an upper-case letter becomes its lower-case letter, any
\* other character stays.
ToLowerRune(c) ==
    IF \E i \in 1..Len(UpperLetters) : UpperLetters[i] = c
    THEN LowerLetters[CHOOSE i \in 1..Len(UpperLetters) : UpperLetters[i] = c]
    ELSE c

\* strings.ToLower
ToLower(str) == [i \in 1..Len(str) |-> ToLowerRune(str[i])]

\* The string literal a sequence of characters spells.
RECURSIVE Spell(_)
Spell(str) == IF str = << >> THEN "" ELSE str[1] \o Spell(Tail(str))

\* string(apmType): the characters of an APMType constant.
APMString(t) ==
    CASE t = OTLP -> <<"o", "t", "l", "p">>
      [] t = Datadog -> <<"d", "a", "t", "a", "d", "o", "g">>
      [] OTHER -> <<"n", "o", "n", "e">>

\* normalizeAPMType(apmType): the switch on strings.ToLower(apmType).
normalizeAPMType(str) ==
    LET lower == Spell(ToLower(str))
    IN  CASE lower = "otlp" -> OTLP
          [] lower = "datadog" -> Datadog
          [] lower = "none" -> None
          [] OTHER -> None

\* Every way of writing a word in upper-case and lower-case letters.
Casings(word) ==
    {[i \in 1..Len(word) |-> IF up[i] THEN ToUpperRune(word[i]) ELSE word[i]] :
        up \in [1..Len(word) -> BOOLEAN]}

\* Strings that name no backend: the empty string, a prefix, an extension,
\* a padded name, another product.
OtherStrings ==
    {<< >>, <<"o", "t", "l">>, <<"O", "T", "L", "P", "x">>,
     <<"n", "o", "n", "e", " ">>, <<" ", "o", "t", "l", "p">>,
     <<"j", "a", "e", "g", "e", "r">>, <<"J", "a", "e", "g", "e", "r">>,
     <<"d", "a", "t", "a", "-", "d", "o", "g">>, <<"n", "o", "n">>}

BackendStrings ==
    UNION {Casings(APMString(t)) : t \in APMTypes} \cup OtherStrings

\* normalizeAPMType called on a string.
NormalizeAPMType(str) ==
    /\ Returned
    /\ ret' = [op |-> "normalizeAPMType", returned |-> TRUE, arg |-> str,
                val |-> normalizeAPMType(str)]
    /\ UNCHANGED <<tracing, shutdownVars, factoryVars, loggerVars, asyncVars>>

\* ------------------------------------------------------- the factory
\* The environment variable NewFactory reads for a setting.
EnvVar(k) ==
    CASE k = "ServiceName" -> "OBS_SERVICE_NAME"
      [] k = "ServiceApp" -> "OBS_APPLICATION"
      [] k = "ServiceEnv" -> "OBS_ENVIRONMENT"
      [] k = "ApmType" -> "OBS_APM_TYPE"
      [] k = "MetricsType" -> "OBS_METRICS_TYPE"
      [] k = "ApmURL" -> "OBS_APM_URL"
      [] k = "LogSource" -> "OBS_LOG_SOURCE"
      [] k = "SampleRate" -> "OBS_SAMPLE_RATE"
      [] k = "LogLevel" -> "OBS_LOG_LEVEL"
      [] k = "TraceLogLevel" -> "OBS_TRACE_LOG_LEVEL"
      [] OTHER -> "OBS_ASYNC_LOGS"

\* The defaults NewFactory starts from. A sample rate is kept in hundredths.
DefaultValue(k) ==
    CASE k = "ServiceName" -> "unknown-service"
      [] k = "ServiceApp" -> "unknown-app"
      [] k = "ServiceEnv" -> "development"
      [] k = "ApmType" -> <<"n", "o", "n", "e">>
      [] k = "MetricsType" -> <<"n", "o", "n", "e">>
      [] k = "ApmURL" -> ""
      [] k = "LogSource" -> TRUE
      [] k = "SampleRate" -> 100
      [] k = "LogLevel" -> LevelDebug
      [] k = "TraceLogLevel" -> LevelInfo
      [] OTHER -> FALSE

\* The values an option WithX(v) is called with: the first is the default
\* of the setting, the others are not.
OptionValue(k, i) ==
    IF i = 1 THEN DefaultValue(k)
    ELSE CASE k = "ApmType" -> IF i = 2 THEN <<"O", "T", "L", "P">>
                               ELSE <<"j", "a", "e", "g", "e", "r">>
           [] k = "MetricsType" -> <<"o", "t", "l", "p">>
           [] Kind(k) = "bool" -> ~DefaultValue(k)
           [] k = "SampleRate" -> 50
           [] Kind(k) = "level" -> LevelError
           [] OTHER -> "from-option"

NumOptionValues(k) == IF k = "ApmType" THEN 3 ELSE 2

\* The texts an environment variable is set to: the first parses to a value
\* other than the default, the second is not a well-formed bool or float,
\* or not a backend, level or URL anyone meant.
EnvValue(k, i) ==
    CASE k = "ApmType" -> IF i = 1 THEN <<"d", "a", "t", "a", "d", "o", "g">>
                          ELSE <<"J", "a", "e", "g", "e", "r">>
      [] k = "MetricsType" -> IF i = 1 THEN <<"O", "T", "L", "P">>
                              ELSE <<"x">>
      [] k = "LogSource" -> IF i = 1 THEN "false" ELSE "no"
      [] k = "AsynchronousLogs" -> IF i = 1 THEN "true" ELSE "yes"
      [] k = "SampleRate" -> IF i = 1 THEN "0.25" ELSE "25%"
      [] Kind(k) = "level" -> IF i = 1 THEN "warn" ELSE "WARN"
      [] OTHER -> IF i = 1 THEN "from-env" ELSE "from-env-2"

\* os.Getenv(name) for the variable of setting k.
Getenv(k) == environ[k]

\* strconv.ParseBool
ParseBool(str) ==
    IF str \in {"1", "t", "T", "TRUE", "true", "True"}
    THEN [ok |-> TRUE, val |-> TRUE]
    ELSE IF str \in {"0", "f", "F", "FALSE", "false", "False"}
    THEN [ok |-> TRUE, val |-> FALSE]
    ELSE [ok |-> FALSE, val |-> FALSE]

\* strconv.ParseFloat(val, 64) on the texts used, in hundredths.
ParseFloat(str) ==
    CASE str = "0.25" -> [ok |-> TRUE, val |-> 25]
      [] str = "1.0" -> [ok |-> TRUE, val |-> 100]
      [] OTHER -> [ok |-> FALSE, val |-> 0]

\* parseLogLevel(levelStr)
parseLogLevel(levelStr) ==
    CASE levelStr = "debug" -> LevelDebug
      [] levelStr = "info" -> LevelInfo
      [] levelStr = "warn" -> LevelWarn
      [] levelStr = "error" -> LevelError
      [] OTHER -> LevelInfo

\* The value NewFactory takes from the text of an environment variable.
ParseEnv(k, val) ==
    CASE Kind(k) = "bool" -> ParseBool(val)
      [] Kind(k) = "float" -> ParseFloat(val)
      [] Kind(k) = "level" -> [ok |-> TRUE, val |-> parseLogLevel(val)]
      [] OTHER -> [ok |-> TRUE, val |-> val]

\* One `if val := os.Getenv(...)` block of the NewFactory that tracks the
\* source of every setting: config.X.Source == sourceDefault.
ApplyEnv(k, cur, val) ==
    IF val # EmptyString(k) /\ cur.Source = "default" /\ ParseEnv(k, val).ok
    THEN [Value |-> ParseEnv(k, val).val, Source |-> "env"]
    ELSE cur

\* One `if val := os.Getenv(...)` block of the NewFactory whose settings
\* are plain values: a string is replaced while it equals its default, a
\* bool, float or level whenever the variable is set and well-formed.
ApplyEnvByValue(k, cur, val) ==
    IF /\ val # EmptyString(k)
       /\ Kind(k) \in {"string", "chars"} => cur.Value = DefaultValue(k)
       /\ ParseEnv(k, val).ok
    THEN [Value |-> ParseEnv(k, val).val]
    ELSE cur

\* The configuration NewFactory(opts...) builds: the defaults, then the
\* options, then the environment.
BuildConfig(opts) ==
    [k \in Settings |->
        ApplyEnv(k,
                 IF k \in DOMAIN opts
                 THEN [Value |-> OptionValue(k, opts[k]), Source |-> "option"]
                 ELSE [Value |-> DefaultValue(k), Source |-> "default"],
                 Getenv(k))]

\* The configuration the NewFactory with plain-valued settings builds.
BuildConfigByValue(opts) ==
    [k \in Settings |->
        ApplyEnvByValue(k,
                        IF k \in DOMAIN opts
                        THEN [Value |-> OptionValue(k, opts[k])]
                        ELSE [Value |-> DefaultValue(k)],
                        Getenv(k))]

\* Options over the settings S: for at most MaxOptions of them a value.
OptionLists(S) ==
    UNION {{o \in [T -> 1..3] : \A k \in T : o[k] <= NumOptionValues(k)} :
             T \in {U \in SUBSET S : Cardinality(U) <= MaxOptions}}

\* Environments over the settings S: at most MaxEnvVars variables are set.
Environments(S) ==
    UNION {{[k \in Settings |-> IF k \in T THEN EnvValue(k, e[k])
                                ELSE EmptyString(k)] : e \in [T -> 1..2]} :
             T \in {U \in SUBSET S : Cardinality(U) <= MaxEnvVars}}

\* NewFactory(opts...)
NewFactory(opts) ==
    /\ Returned
    /\ factoryConfig' = [built |-> TRUE, settings |-> BuildConfig(opts)]
    /\ ret' = [op |-> "NewFactory", returned |-> TRUE, opts |-> opts]
    /\ UNCHANGED environ
    /\ UNCHANGED <<tracing, shutdownVars, loggerVars, asyncVars>>

\* NewFactory(opts...), settings held as plain values
NewFactoryByValue(opts) ==
    /\ Returned
    /\ factoryConfig' = [built |-> TRUE, settings |-> BuildConfigByValue(opts)]
    /\ ret' = [op |-> "NewFactory", returned |-> TRUE, opts |-> opts]
    /\ UNCHANGED environ
    /\ UNCHANGED <<tracing, shutdownVars, loggerVars, asyncVars>>

\* ------------------------------------------------ logger registration
\* Arguments of initLogger(apmType, logSource, logLevel, traceLogLevel, async).
InitArgs ==
    [apmType : APMTypes, logSource : {TRUE}, logLevel : {LevelDebug},
     traceLogLevel : {LevelInfo}, async : BOOLEAN]

\* The logger the body of initOnce.Do builds from the arguments of the call
\* g: slog.New(newApmHandler(jsonHandler, ...)), wrapped by newAsyncHandler
\* when async is set.
BuildLogger(g, args) ==
    [handler |-> IF args.async THEN "asyncHandler" ELSE "apmHandler",
     apmType |-> args.apmType, addSource |-> args.logSource,
     level |-> args.logLevel, traceLogLevel |-> args.traceLogLevel,
     by |-> g]

\* A Once whose Do runs the function on every call.
OnceIsNew_always == TRUE

\* sync.Once.Do: the function runs only if no Do has started before.
OnceIsNew == initOnce.state = "new"

\* initLogger called by chain g: initOnce.Do(...) is entered. The first call
\* starts the function; any other call waits inside Do for it to end.
InitLoggerCall(g, args) ==
    /\ initCalls[g].pc = "idle"
    /\ initCalls[g].n < MaxInitCalls
    /\ initOnce.state # "running"
    /\ IF OnceIsNew
       THEN /\ initOnce' = [state |-> "running", owner |-> g, args |-> args]
            /\ initCalls' = [initCalls EXCEPT ![g] =
                                [pc |-> "SetDefault", n |-> @.n + 1,
                                 args |-> args]]
       ELSE /\ initCalls' = [initCalls EXCEPT ![g] =
                                [pc |-> "wait", n |-> @.n + 1,
                                 args |-> args]]
            /\ UNCHANGED initOnce
    /\ UNCHANGED <<baseLogger, slogDefault>>
    /\ ret' = NoRet
    /\ UNCHANGED <<tracing, shutdownVars, factoryVars, asyncVars>>

\* The same, arriving while the function of another call is running.
InitLoggerCallLate(g, args) ==
    /\ initCalls[g].pc = "idle"
    /\ initCalls[g].n < MaxInitCalls
    /\ initOnce.state = "running"
    /\ initCalls' = [initCalls EXCEPT ![g] =
                        [pc |-> "wait", n |-> @.n + 1,
                         args |-> args]]
    /\ UNCHANGED <<initOnce, baseLogger, slogDefault>>
    /\ ret' = NoRet
    /\ UNCHANGED <<tracing, shutdownVars, factoryVars, asyncVars>>

\* The function of initOnce.Do: slog.SetDefault(logger).
OnceSetDefault(g) ==
    /\ initCalls[g].pc = "SetDefault"
    /\ slogDefault' = BuildLogger(g, initCalls[g].args)
    /\ initCalls' = [initCalls EXCEPT ![g].pc = "baseLogger"]
    /\ UNCHANGED <<initOnce, baseLogger>>
    /\ UNCHANGED <<tracing, shutdownVars, factoryVars, asyncVars, ret>>

\* The function of initOnce.Do: baseLogger = logger, and Do is done.
OnceSetBaseLogger(g) ==
    /\ initCalls[g].pc = "baseLogger"
    /\ baseLogger' = BuildLogger(g, initCalls[g].args)
    /\ initOnce' = [initOnce EXCEPT !.state = "done"]
    /\ initCalls' = [initCalls EXCEPT ![g].pc = "wait"]
    /\ UNCHANGED slogDefault
    /\ UNCHANGED <<tracing, shutdownVars, factoryVars, asyncVars, ret>>

\* initLogger: `return baseLogger, shutdowner` once Do has returned.
InitLoggerReturn(g) ==
    /\ initCalls[g].pc = "wait"
    /\ initOnce.state = "done"
    /\ initCalls' = [initCalls EXCEPT ![g].pc = "idle", ![g].args = << >>]
    /\ ret' = [op |-> "initLogger", returned |-> TRUE, chain |-> g,
                args |-> initCalls[g].args, result |-> baseLogger]
    /\ UNCHANGED <<initOnce, baseLogger, slogDefault>>
    /\ UNCHANGED <<tracing, shutdownVars, factoryVars, asyncVars>>

\* ------------------------------------ containers made outside a request
\* ObsFromCtx(ctx): the container stored in ctx or, when ctx holds none,
\* &Observability{}, all of whose fields are nil.
ObsFromCtx(found) ==
    IF found
    THEN [Trace |-> "Trace", Log |-> [isNil |-> FALSE, logger |-> baseLogger]]
    ELSE [Trace |-> "nil", Log |-> [isNil |-> TRUE, logger |-> NoLogger]]

\* NewObservability(ctx, ...): Trace from newTrace, Log from
\* newLog(obs, baseLogger) with the package's baseLogger as it is now.
NewObservability ==
    [Trace |-> "Trace", Log |-> [isNil |-> FALSE, logger |-> baseLogger]]

\* How a container is obtained outside Factory.StartSpanFromRequest.
ObsSources == {"ObsFromCtx", "NewObservability"}

ObtainObs(src) ==
    IF src = "ObsFromCtx" THEN ObsFromCtx(FALSE) ELSE NewObservability

\* obs.Trace.Start(ctx, name), and the methods of the Span it returns: the
\* call goes through the embedded *unifiedTracer of obs.Trace, a nil
\* pointer dereference when obs.Trace is nil.
TraceCall(obs) == IF obs.Trace = "nil" THEN "panic" ELSE "ok"

\* obs.Log.Debug / Info / Warn / Error -> Logc: l.getCtx() reads l.obs and
\* l.logger.Enabled reads the logger's handler, each a nil pointer
\* dereference when l, respectively l.logger, is nil.
LogCall(obs) ==
    IF obs.Log.isNil THEN "panic"
    ELSE IF obs.Log.logger = NoLogger THEN "panic"
    ELSE "ok"

ObsOps == {"StartSpan", "Span.End", "Log.Info"}

\* One call on a container: StartSpan alone, StartSpan followed by a method
\* of the returned span, or a Log call.
ObsCall(obs, op) == IF op = "Log.Info" THEN LogCall(obs) ELSE TraceCall(obs)

\* The application obtains a container and makes one call on it.
CallOnObs(src, op) ==
    /\ Returned
    /\ ret' = [op |-> op, src |-> src, obs |-> ObtainObs(src),
                initialized |-> initOnce.state = "done",
                outcome |-> ObsCall(ObtainObs(src), op),
                returned |-> ObsCall(ObtainObs(src), op) = "ok"]
    /\ UNCHANGED <<tracing, shutdownVars, factoryVars, loggerVars, asyncVars>>

\* ---------------------------------------------- the asynchronous handler
\* The capacity of the channel of an asyncHandler (10000 in the source).
defaultAsyncBufferSize == 3
MaxDerived == 1

\* The records handed to the handler: MaxRecords different ones.
Records ==
    {NewRecord(LevelInfo, <<StringAttr("n", ToString(n))>>) :
        n \in 1..MaxRecords}

\* newAsyncHandler(underlying): an empty open channel and a worker.
newAsyncHandler == [made |-> TRUE, buf |-> << >>, closed |-> FALSE,
                    worker |-> "running", waiting |-> {}, derived |-> << >>]

\* A send that is taken whatever the length of the buffer.
HasRoom_always(ch) == TRUE

\* `case h.records <- recordCopy` of the select can be taken: the buffer of
\* the channel has room.
HasRoom(ch) == Len(ch.buf) < defaultAsyncBufferSize

\* asyncHandler.Handle(ctx, r): the record is cloned and sent if the select
\* can send, else the default case drops it; nil is returned. A send on a
\* closed channel panics.
AsyncHandle(r) ==
    /\ Returned
    /\ records.made
    /\ records' = IF ~records.closed /\ HasRoom(records)
                  THEN [records EXCEPT !.buf = Append(@, r)]
                  ELSE records
    /\ ret' = [op |-> "asyncHandler.Handle", returned |-> TRUE,
               outcome |-> IF records.closed THEN "panic" ELSE "nil",
               rec |-> r, before |-> records.buf]
    /\ UNCHANGED <<tracing, shutdownVars, factoryVars, loggerVars>>

\* One iteration of the worker: `for record := range h.records` receives
\* the oldest record and passes it to h.underlying.Handle.
AsyncWorker ==
    /\ Returned
    /\ records.made
    /\ records.buf # << >>
    /\ records' = [records EXCEPT !.buf = Tail(@)]
    /\ ret' = [op |-> "asyncHandler.worker", returned |-> TRUE,
               outcome |-> "nil", rec |-> Head(records.buf),
               before |-> records.buf, ctx |-> Background,
               out |-> HandleResult(Background, Head(records.buf))]
    /\ UNCHANGED <<tracing, shutdownVars, factoryVars, loggerVars>>

\* A worker that leaves its loop as soon as the channel is closed.
RangeEnds_onClose(ch) == ch.closed

\* `for record := range h.records` ends: the channel is closed and every
\* buffered record has been received.
RangeEnds(ch) == ch.closed /\ ch.buf = << >>

\* The worker leaves its loop and runs the deferred h.wg.Done().
AsyncWorkerExit ==
    /\ Returned
    /\ records.made
    /\ records.worker = "running"
    /\ RangeEnds(records)
    /\ records' = [records EXCEPT !.worker = "exited"]
    /\ ret' = [op |-> "asyncHandler.worker exit", returned |-> TRUE,
               outcome |-> "nil", left |-> records.buf]
    /\ UNCHANGED <<tracing, shutdownVars, factoryVars, loggerVars>>

\* asyncHandler.Shutdown(ctx) called by chain g, first statement:
\* close(h.records). Closing a closed channel panics.
AsyncClose(g) ==
    /\ Returned
    /\ records.made
    /\ g \notin records.waiting
    /\ records' = IF records.closed THEN records
                  ELSE [records EXCEPT !.closed = TRUE,
                                       !.waiting = @ \cup {g}]
    /\ ret' = [op |-> "asyncHandler.Shutdown close", returned |-> TRUE,
               outcome |-> IF records.closed THEN "panic" ELSE "nil",
               chain |-> g]
    /\ UNCHANGED <<tracing, shutdownVars, factoryVars, loggerVars>>

\* asyncHandler.Shutdown, the rest: h.wg.Wait() is over once the worker has
\* run wg.Done(), and nil is returned.
AsyncShutdownReturn(g) ==
    /\ Returned
    /\ g \in records.waiting
    /\ records.worker = "exited"
    /\ records' = [records EXCEPT !.waiting = @ \ {g}]
    /\ ret' = [op |-> "asyncHandler.Shutdown", returned |-> TRUE,
               outcome |-> "nil", chain |-> g]
    /\ UNCHANGED <<tracing, shutdownVars, factoryVars, loggerVars>>

\* asyncHandler.WithAttrs(attrs) and asyncHandler.WithGroup(name), reached
\* by Log.With through slog.Logger.With: newAsyncHandler around the derived
\* wrapped handler, a channel and a worker of its own that the receiver
\* keeps no reference to.
AsyncWithAttrs ==
    /\ Returned
    /\ records.made
    /\ Len(records.derived) < MaxDerived
    /\ records' = [records EXCEPT !.derived =
                      Append(@, [buf |-> << >>, closed |-> FALSE,
                                 worker |-> "running"])]
    /\ ret' = [op |-> "asyncHandler.WithAttrs", returned |-> TRUE,
               outcome |-> "nil", handler |-> Len(records.derived) + 1]
    /\ UNCHANGED <<tracing, shutdownVars, factoryVars, loggerVars>>

\* Handle of the d-th derived handler: the select on its own channel.
DerivedHandle(d, r) ==
    /\ Returned
    /\ d \in 1..Len(records.derived)
    /\ LET ch == records.derived[d]
       IN  /\ records' = IF ~ch.closed /\ HasRoom(ch)
                         THEN [records EXCEPT !.derived[d].buf = Append(@, r)]
                         ELSE records
           /\ ret' = [op |-> "derived.Handle", returned |-> TRUE,
                      outcome |-> IF ch.closed THEN "panic" ELSE "nil",
                      rec |-> r, before |-> ch.buf, handler |-> d]
    /\ UNCHANGED <<tracing, shutdownVars, factoryVars, loggerVars>>

\* One iteration of the worker of the d-th derived handler.
DerivedWorker(d) ==
    /\ Returned
    /\ d \in 1..Len(records.derived)
    /\ records.derived[d].buf # << >>
    /\ records' = [records EXCEPT !.derived[d].buf = Tail(@)]
    /\ ret' = [op |-> "derived.worker", returned |-> TRUE,
               outcome |-> "nil", rec |-> Head(records.derived[d].buf),
               before |-> records.derived[d].buf, handler |-> d]
    /\ UNCHANGED <<tracing, shutdownVars, factoryVars, loggerVars>>

\* Log.Logc(level, depth, msg, args...) on the Log of container o when the
\* logger's handler is the asyncHandler: Enabled asks the wrapped handler,
\* Handle(ctx, r) sends the record, and only the record, to the worker. The
\* field `from` remembers the span of ctx for the properties; the program
\* keeps no such thing.
AsyncLogc(g, o, level, attrs) ==
    /\ Returned
    /\ Built(o)
    /\ records.made
    /\ LET ctx == getCtx(o)
           r == [level |-> level, msg |-> Message, attrs |-> attrs,
                 from |-> SpanFromContext(ctx)]
           sent == Enabled(level) /\ ~records.closed /\ HasRoom(records)
       IN  /\ records' = IF sent THEN [records EXCEPT !.buf = Append(@, r)]
                         ELSE records
           /\ ret' = [op |-> "Log.Logc", returned |-> TRUE,
                      outcome |-> IF Enabled(level) /\ records.closed
                                  THEN "panic" ELSE "nil",
                      rec |-> r, before |-> records.buf, ctx |-> ctx,
                      out |-> [ops |-> << >>, sink |-> << >>, order |-> << >>]]
    /\ UNCHANGED <<tracing, shutdownVars, factoryVars, loggerVars>>

\* ---------------------------------------------------------- shutdown
\* The implementations of Shutdowner that Setup puts into the composite:
\* noOpShutdowner, datadogShutdowner, otlpShutdowner and the asyncHandler.
ShutdownerKinds == {"noOp", "datadog", "otlp", "async"}

\* What one call of a constituent's Shutdown(ctx) does. noOpShutdowner and
\* datadogShutdowner return nil; otlpShutdowner returns nil or the provider's
\* error (also when ctx expires); asyncHandler.Shutdown closes the channel
\* and waits for the worker without looking at ctx, so it returns nil or,
\* when the worker's sink write never completes, does not return.
ShutdownOutcomes(kind) ==
    CASE kind = "otlp" -> {"nil", "err"}
      [] kind = "async" -> {"nil", "hang"}
      [] OTHER -> {"nil"}

\* The outcomes the constituents of cs can have in one Shutdown of cs.
OutcomesOf(cs) ==
    {outs \in [1..Len(cs) -> {"nil", "err", "hang"}] :
        \A i \in 1..Len(cs) : outs[i] \in ShutdownOutcomes(cs[i])}

\* errors.Join(errs...): nil for no errors, else one error wrapping all.
NilErr == [joined |-> << >>]

Join(errs) == [joined |-> errs]

\* A loop that stops at the first constituent that failed.
LoopNext_shortCircuit(outs, i) ==
    IF outs[i] = "err" THEN Len(outs) + 1 ELSE i + 1

\* compositeShutdowner.Shutdown: `for _, s := range cs.shutdowners`.
LoopNext(outs, i) == i + 1

\* The loop of compositeShutdowner.Shutdown from constituent i on: the
\* constituents called, the errors appended to errs (the error of
\* constituent i is i), and whether the loop came to its end.
RECURSIVE ShutdownLoop(_, _, _)
ShutdownLoop(outs, i, acc) ==
    IF i > Len(outs) THEN [acc EXCEPT !.returned = TRUE]
    ELSE IF outs[i] = "hang" THEN [acc EXCEPT !.calls = Append(@, i)]
    ELSE ShutdownLoop(outs, LoopNext(outs, i),
                      [acc EXCEPT !.calls = Append(@, i),
                                  !.errs = IF outs[i] = "err"
                                           THEN Append(@, i) ELSE @])

\* compositeShutdowner.Shutdown(ctx) with the constituents behaving as outs.
CompositeShutdown(outs) ==
    LET r == ShutdownLoop(outs, 1,
                          [calls |-> << >>, errs |-> << >>,
                           returned |-> FALSE])
    IN  [calls |-> r.calls, returned |-> r.returned,
         err |-> IF r.returned /\ Len(r.errs) > 0
                 THEN Join(r.errs) ELSE NilErr]

\* compositeShutdowner.Shutdown(ctx) called by the application.
Shutdown ==
    /\ Returned
    /\ \E outs \in OutcomesOf(shutdowners) :
         LET r == CompositeShutdown(outs)
         IN  ret' = [op |-> "Shutdown", outs |-> outs, calls |-> r.calls,
                     returned |-> r.returned, err |-> r.err,
                     raised |-> FALSE, logged |-> << >>]
    /\ UNCHANGED <<tracing, shutdownVars, factoryVars, loggerVars, asyncVars>>

\* compositeShutdowner.ShutdownOrLog(msg): shutdownWithDefaultTimeout calls
\* Shutdown with a ten-second context and logs the error it returns.
ShutdownOrLog ==
    /\ Returned
    /\ \E outs \in OutcomesOf(shutdowners) :
         LET r == CompositeShutdown(outs)
         IN  ret' = [op |-> "ShutdownOrLog", outs |-> outs,
                     calls |-> r.calls, returned |-> r.returned,
                     err |-> NilErr, raised |-> FALSE,
                     logged |-> IF r.returned /\ r.err # NilErr
                                THEN <<r.err>> ELSE << >>]
    /\ UNCHANGED <<tracing, shutdownVars, factoryVars, loggerVars, asyncVars>>

\* ------------------------------------------------ attribute conversion
MaxInt64 == 2^(IntBits - 1) - 1
MinInt64 == -(2^(IntBits - 1))
MaxUint64 == 2^IntBits - 1

\* A Go value handed to the conversion: its dynamic type and its payload,
\* a number (floats in hundredths), a text or a truth value.
GoValue(type, num, text, flag) ==
    [type |-> type, num |-> num, text |-> text, flag |-> flag]

SignedInts == MinInt64..MaxInt64
Texts == {"", "ok", "42"}
Floats == {0, 150, 275, 1600}

\* The values passed as span attributes: the five types of the switch, and
\* narrower numbers, unsigned numbers and a struct besides.
SpanValues ==
    {GoValue("string", 0, t, FALSE) : t \in Texts}
    \cup {GoValue(ty, n, "", FALSE) :
             ty \in {"int", "int64", "int32"}, n \in SignedInts}
    \cup {GoValue("uint64", n, "", FALSE) : n \in 0..MaxUint64}
    \cup {GoValue("bool", 0, "", b) : b \in BOOLEAN}
    \cup {GoValue(ty, f, "", FALSE) : ty \in {"float64", "float32"}, f \in Floats}
    \cup {GoValue("struct", n, "", FALSE) : n \in {MinInt64, 0, MaxInt64}}

\* The slog.Value of a log attribute: its Kind and its payload.
LogValues ==
    {GoValue("KindString", 0, t, FALSE) : t \in Texts}
    \cup {GoValue("KindInt64", n, "", FALSE) : n \in SignedInts}
    \cup {GoValue("KindUint64", n, "", FALSE) : n \in 0..MaxUint64}
    \cup {GoValue("KindBool", 0, "", b) : b \in BOOLEAN}
    \cup {GoValue("KindFloat64", f, "", FALSE) : f \in Floats}
    \cup {GoValue(ty, n, "", FALSE) :
             ty \in {"KindDuration", "KindAny"}, n \in {MinInt64, 0, MaxInt64}}

Digit(d) == <<"0", "1", "2", "3", "4", "5", "6", "7", "8", "9">>[d + 1]

\* strconv.FormatUint(n, 10)
RECURSIVE FormatUint(_)
FormatUint(n) ==
    IF n < 10 THEN Digit(n) ELSE FormatUint(n \div 10) \o Digit(n % 10)

\* strconv.FormatInt(n, 10)
FormatInt(n) == IF n < 0 THEN "-" \o FormatUint(-n) ELSE FormatUint(n)

\* strconv.FormatFloat(f, 'g', -1, 64) of a non-negative number of
\* hundredths: the shortest decimal that reads back as f.
FormatFloat(f) ==
    FormatUint(f \div 100)
    \o (IF f % 100 = 0 THEN ""
        ELSE "." \o Digit((f % 100) \div 10)
                 \o (IF f % 10 = 0 THEN "" ELSE Digit(f % 10)))

\* fmt.Sprintf("%v", v), and slog.Value.String() for the kinds without a
\* case of their own.
Sprint(v) ==
    CASE v.type \in {"string", "KindString"} -> v.text
      [] v.type \in {"int", "int64", "int32", "KindInt64"} -> FormatInt(v.num)
      [] v.type \in {"uint64", "KindUint64"} -> FormatUint(v.num)
      [] v.type \in {"bool", "KindBool"} -> IF v.flag THEN "true" ELSE "false"
      [] v.type \in {"float64", "float32", "KindFloat64"} -> FormatFloat(v.num)
      [] v.type = "KindDuration" -> FormatInt(v.num) \o "ns"
      [] OTHER -> "{" \o FormatInt(v.num) \o "}"

\* An attribute.KeyValue: attribute.String, Int64, Float64 or Bool.
KeyValue(k, kind, num, text, flag) ==
    [key |-> k, kind |-> kind, num |-> num, text |-> text, flag |-> flag]

\* The Go conversion int64(u) of a uint64: the same bits, read as signed.
Int64OfUint64(u) == IF u > MaxInt64 THEN u - 2^IntBits ELSE u

\* ToAttribute(k, v), and the same switch inside StartSpan.
ToAttribute(k, v) ==
    CASE v.type = "string" -> KeyValue(k, "STRING", 0, v.text, FALSE)
      [] v.type = "int" -> KeyValue(k, "INT64", v.num, "", FALSE)
      [] v.type = "int64" -> KeyValue(k, "INT64", v.num, "", FALSE)
      [] v.type = "bool" -> KeyValue(k, "BOOL", 0, "", v.flag)
      [] v.type = "float64" -> KeyValue(k, "FLOAT64", v.num, "", FALSE)
      [] OTHER -> KeyValue(k, "STRING", 0, Sprint(v), FALSE)

\* toOtelAttribute(a) for the slog.Attr with key k and value v.
toOtelAttribute(k, v) ==
    CASE v.type = "KindString" -> KeyValue(k, "STRING", 0, v.text, FALSE)
      [] v.type = "KindInt64" -> KeyValue(k, "INT64", v.num, "", FALSE)
      [] v.type = "KindUint64" ->
            KeyValue(k, "INT64", Int64OfUint64(v.num), "", FALSE)
      [] v.type = "KindFloat64" -> KeyValue(k, "FLOAT64", v.num, "", FALSE)
      [] v.type = "KindBool" -> KeyValue(k, "BOOL", 0, "", v.flag)
      [] OTHER -> KeyValue(k, "STRING", 0, Sprint(v), FALSE)

AttrKeys == {"user.id"}

\* A caller converts a span attribute.
CallToAttribute(k, v) ==
    /\ Returned
    /\ ret' = [op |-> "ToAttribute", returned |-> TRUE, in |-> v,
               key |-> k, out |-> ToAttribute(k, v)]
    /\ UNCHANGED <<tracing, shutdownVars, factoryVars, loggerVars, asyncVars>>

\* The correlation handler converts a log attribute.
CallToOtelAttribute(k, v) ==
    /\ Returned
    /\ ret' = [op |-> "toOtelAttribute", returned |-> TRUE, in |-> v,
               key |-> k, out |-> toOtelAttribute(k, v)]
    /\ UNCHANGED <<tracing, shutdownVars, factoryVars, loggerVars, asyncVars>>

\* -------------------------------------------------------------- setup
\* The builds of the package: without a tag every backend is compiled in,
\* with the tag none, datadog or otlp only that one.
Builds == {"all", "none", "datadog", "otlp"}

\* The registry the init functions of a build fill: every build registers
\* a function for each of the three backends, a stub that fails for the
\* backends left out of the build.
setupFuncs(build) ==
    [t \in APMTypes |->
        CASE t = None -> "setupNone"
          [] t = OTLP -> IF build \in {"all", "otlp"}
                         THEN "setupOTLP" ELSE "notIncluded"
          [] OTHER -> IF build \in {"all", "datadog"}
                      THEN "setupDatadog" ELSE "notIncluded"]

NoErr == [stage |-> "", cause |-> ""]

\* setupTracing(ctx, ..., apmType, sampleRate): the string is normalised, the
\* function registered for the result is looked up and called. setupOTLP
\* fails when the exporter or the resource cannot be created.
setupTracing(build, apmTypeStr, otlpOk) ==
    LET normalizedApmType == normalizeAPMType(apmTypeStr)
    IN  IF normalizedApmType \notin DOMAIN setupFuncs(build)
        THEN [shutdowner |-> "nil", cause |-> "unsupported APM type"]
        ELSE LET setupFunc == setupFuncs(build)[normalizedApmType]
             IN  CASE setupFunc = "setupNone" ->
                        [shutdowner |-> "noOp", cause |-> ""]
                   [] setupFunc = "setupDatadog" ->
                        [shutdowner |-> "datadog", cause |-> ""]
                   [] setupFunc = "setupOTLP" ->
                        IF otlpOk
                        THEN [shutdowner |-> "otlp", cause |-> ""]
                        ELSE [shutdowner |-> "nil",
                              cause |-> "failed to create exporter"]
                   [] OTHER ->
                        [shutdowner |-> "nil",
                         cause |-> "not included in this build"]

\* normalizeMetricsType(metricsType)
normalizeMetricsType(metricsType) ==
    IF Spell(ToLower(metricsType)) = "otlp" THEN "otlp" ELSE "none"

\* The channel after asyncHandler.Shutdown: closed and drained.
Closed(ch) == [ch EXCEPT !.buf = << >>, !.closed = TRUE, !.worker = "exited"]

\* Factory.Setup(ctx) on the main goroutine: setupLogging (initLogger),
\* logSettings, setupTracing, and setupMetrics when the metrics type is
\* otlp. On a failure the shutdowners collected so far are shut down and
\* (nil, err) is returned; otherwise the composite of all of them.
Setup(build, otlpOk, metricsOk) ==
    /\ Returned
    /\ factoryConfig.built
    /\ initOnce.state # "running"
    /\ LET cfg == factoryConfig.settings
           args == [apmType |-> normalizeAPMType(cfg["ApmType"].Value),
                    logSource |-> cfg["LogSource"].Value,
                    logLevel |-> cfg["LogLevel"].Value,
                    traceLogLevel |-> cfg["TraceLogLevel"].Value,
                    async |-> cfg["AsynchronousLogs"].Value]
           first == OnceIsNew
           logger == IF first THEN BuildLogger(1, args) ELSE baseLogger
           logShutdowner == IF first /\ args.async THEN "async" ELSE "noOp"
           made == IF first /\ args.async THEN newAsyncHandler ELSE records
           default == IF first THEN logger ELSE slogDefault
           logged == IF /\ default.handler = "asyncHandler"
                        /\ made.made /\ ~made.closed /\ HasRoom(made)
                     THEN [made EXCEPT !.buf = Append(@, 1)]
                     ELSE made
           tr == setupTracing(build, cfg["ApmType"].Value, otlpOk)
           wantMetrics ==
               normalizeMetricsType(cfg["MetricsType"].Value) = "otlp"
           failed == IF tr.cause # "" THEN "tracing"
                     ELSE IF wantMetrics /\ ~metricsOk THEN "metrics"
                     ELSE ""
           collected == <<logShutdowner>>
                        \o (IF tr.cause = "" THEN <<tr.shutdowner>> ELSE << >>)
                        \o (IF tr.cause = "" /\ wantMetrics /\ metricsOk
                            THEN <<"meter">> ELSE << >>)
       IN  /\ initOnce' = IF first
                          THEN [state |-> "done", owner |-> 1, args |-> args]
                          ELSE initOnce
           /\ baseLogger' = logger
           /\ slogDefault' = default
           /\ records' = IF failed # "" /\ logShutdowner = "async"
                         THEN Closed(logged) ELSE logged
           /\ shutdowners' = IF failed = "" THEN collected ELSE << >>
           /\ ret' = [op |-> "Setup", returned |-> TRUE, build |-> build,
                      apmType |-> cfg["ApmType"].Value,
                      err |-> IF failed = "" THEN NoErr
                              ELSE [stage |-> failed,
                                    cause |-> IF failed = "tracing"
                                              THEN tr.cause
                                              ELSE "failed to start runtime metrics"],
                      shutdowner |-> IF failed = "" THEN "composite"
                                     ELSE "nil"]
    /\ UNCHANGED <<tracing, factoryVars, initCalls>>

\* ------------------------------------------------------ specifications
\* unifiedTracer.Start called by the chains G on the containers O with any
\* context the chain knows, and End of the handles they hold.
StartOps(G, O) ==
    \/ \E g \in G, o \in O : \E ctx \in KnownCtx(g) : Start(g, o, ctx)
    \/ \E g \in G, h \in HandleIds : End(g, h)

\* The same, Start being given the container's own context or the chain's
\* request root only.
StartAmbientOps(G, O) ==
    \/ \E g \in G, o \in O : \E ctx \in {Context(o), RootCtx(g)} :
          Start(g, o, ctx)
    \/ \E g \in G, h \in HandleIds : End(g, h)

\* The same, every Start being given the container's own context, as
\* Observability.StartSpan passes o.ctx.
StartNestedOps(G, O) ==
    \/ \E g \in G, o \in O : Start(g, o, Context(o))
    \/ \E g \in G, h \in HandleIds : End(g, h)

\* The other methods of the handles.
MethodOps(G) ==
    \/ \E g \in G, h \in HandleIds, m \in SpanMethods : SpanMethod(g, h, m)
    \/ \E g \in G, m \in SpanMethods \cup {"End"} : NoOpMethod(g, m)

\* The cloning wrappers.
CloneOps(G, O) == \E g \in G, o \in O : StartSpan(g, o)

\* The Log of a container, with severities L and attribute lists A.
LogOps(G, O, L, A) ==
    \E g \in G, o \in O, level \in L, attrs \in A :
        Logc(g, o, level, attrs)

\* The correlation handler called directly, with attribute lists A.
HandleOps(G, A) ==
    \E g \in G, level \in Levels, attrs \in A :
        \E ctx \in KnownCtx(g) : Handle(g, ctx, level, attrs)

\* The caller has looked at what the last operation did.
Observe ==
    /\ UNCHANGED <<others, calls>>
    /\ last # NoLast
    /\ last' = NoLast
    /\ UNCHANGED <<config, obsCtx, handles, created, pool, held, spans,
                   nextSpan, hist>>

Idle == last = NoLast

\* The factory's default thresholds: WithLogLevel defaults to LevelDebug,
\* WithTraceLogLevel to LevelInfo.
InitDefault == Init /\ logLevel = LevelDebug /\ traceLogLevel = LevelInfo

\* Several call chains sharing the containers and cloning them.
Next ==
    \/ Idle /\ StartAmbientOps(Chains, ObsIds)
    \/ Idle /\ CloneOps(Chains, ObsIds)
    \/ Idle /\ LogOps(Chains, ObsIds, {LevelInfo}, {<< >>})
    \/ Observe

Spec == InitDefault /\ [][Next]_vars

\* One call chain on one container.
NextChain ==
    \/ Idle /\ StartOps({1}, {1})
    \/ Idle /\ MethodOps({1})
    \/ Idle /\ LogOps({1}, {1}, Levels, {<< >>})
    \/ Observe

SpecChain == InitDefault /\ [][NextChain]_vars

\* The correlation handler under every attachment threshold.
NextHandler ==
    \/ Idle /\ StartNestedOps({1}, {1})
    \/ Idle /\ HandleOps({1}, AttrSeqs)
    \/ Observe

\* The sink lets every severity through.
InitHandler == Init /\ logLevel = LevelDebug

SpecHandler == InitHandler /\ [][NextHandler]_vars

\* The Log of one container under every pair of thresholds.
NextLog ==
    \/ Idle /\ StartAmbientOps({1}, {1})
    \/ Idle /\ LogOps({1}, {1}, Levels, {<< >>, <<ErrAttr>>})
    \/ Observe

SpecLog == Init /\ [][NextLog]_vars

\* Several call chains starting, using and ending handles on one tracer.
NextPool ==
    \/ Idle /\ StartNestedOps(Chains, {1})
    \/ Idle /\ MethodOps(Chains)
    \/ Observe

SpecPool == InitDefault /\ [][NextPool]_vars

\* The tracer and the handler at rest, with the factory's defaults.
TracingIdle ==
    /\ apmType = None
    /\ logLevel = LevelDebug
    /\ traceLogLevel = LevelInfo
    /\ obsCtx = [o \in ObsIds |-> IF o = 1 THEN Background ELSE NilCtx]
    /\ handles = [h \in HandleIds |-> ZeroHandle]
    /\ created = {}
    /\ pool = {}
    /\ held = [g \in Chains |-> {}]
    /\ spans = [s \in SpanIds |-> ZeroSpan]
    /\ nextSpan = 0
    /\ last = NoLast
    /\ hist = [ambient |-> [s \in SpanIds |-> NilCtx], lifo |-> TRUE]
    /\ calls = [g \in Chains |-> NoCall]

\* A composite shutdowner over any constituents, shut down by the application.
InitShutdown ==
    /\ TracingIdle
    /\ shutdowners \in SeqsUpTo(ShutdownerKinds, MaxShutdowners)
    /\ environ = [k \in Settings |-> EmptyString(k)]
    /\ factoryConfig = NoConfig
    /\ initOnce = NewOnce
    /\ baseLogger = NoLogger
    /\ slogDefault = NoLogger
    /\ initCalls = [g \in Chains |-> NoInitCall]
    /\ records = NoRecords
    /\ ret = NoRet

NextShutdown ==
    \/ Shutdown
    \/ ShutdownOrLog

SpecShutdown == InitShutdown /\ [][NextShutdown]_vars

\* Call chains registering the process-wide logger concurrently.
NextInitLogger ==
    \/ \E g \in Chains, args \in InitArgs : InitLoggerCall(g, args)
    \/ \E g \in Chains, args \in InitArgs : InitLoggerCallLate(g, args)
    \/ \E g \in Chains : OnceSetDefault(g)
    \/ \E g \in Chains : OnceSetBaseLogger(g)
    \/ \E g \in Chains : InitLoggerReturn(g)

InitInitLogger == TracingIdle /\ ProcessStart

SpecInitLogger == InitInitLogger /\ [][NextInitLogger]_vars

\* Containers obtained and used before, during and after the registration
\* of the logger by Setup.
NextPreInit ==
    \/ \E args \in InitArgs : Returned /\ InitLoggerCall(1, args)
    \/ OnceSetDefault(1)
    \/ OnceSetBaseLogger(1)
    \/ InitLoggerReturn(1)
    \/ \E src \in ObsSources, op \in ObsOps : CallOnObs(src, op)

SpecPreInit == InitInitLogger /\ [][NextPreInit]_vars

\* The backend-selection string normalised for every input.
NextNormalize == \E str \in BackendStrings : NormalizeAPMType(str)

SpecNormalize == InitInitLogger /\ [][NextNormalize]_vars

\* A factory built from any options in any environment.
InitNewFactory ==
    /\ TracingIdle
    /\ shutdowners = << >>
    /\ environ \in Environments(Settings)
    /\ factoryConfig = NoConfig
    /\ initOnce = NewOnce
    /\ baseLogger = NoLogger
    /\ slogDefault = NoLogger
    /\ initCalls = [g \in Chains |-> NoInitCall]
    /\ records = NoRecords
    /\ ret = NoRet

\* The process builds its factory once.
NextNewFactory ==
    /\ ~factoryConfig.built
    /\ \E opts \in OptionLists(Settings) :
          NewFactory(opts) \/ NewFactoryByValue(opts)

SpecNewFactory == InitNewFactory /\ [][NextNewFactory]_vars

\* An asynchronous handler in use: callers log, the worker drains.
InitAsync ==
    /\ TracingIdle
    /\ shutdowners = << >>
    /\ environ = [k \in Settings |-> EmptyString(k)]
    /\ factoryConfig = NoConfig
    /\ initOnce = NewOnce
    /\ baseLogger = NoLogger
    /\ slogDefault = NoLogger
    /\ initCalls = [g \in Chains |-> NoInitCall]
    /\ records = newAsyncHandler
    /\ ret = NoRet

NextAsync ==
    \/ \E r \in Records : AsyncHandle(r)
    \/ AsyncWorker

SpecAsync == InitAsync /\ [][NextAsync]_vars

\* One call chain starting and ending spans on a container whose Log writes
\* through the asynchronous handler.
InitAsyncLog ==
    /\ TracingStart
    /\ logLevel = LevelDebug
    /\ traceLogLevel = LevelInfo
    /\ shutdowners = <<"async">>
    /\ environ = [k \in Settings |-> EmptyString(k)]
    /\ factoryConfig = NoConfig
    /\ initOnce = NewOnce
    /\ baseLogger = NoLogger
    /\ slogDefault = NoLogger
    /\ initCalls = [g \in Chains |-> NoInitCall]
    /\ records = newAsyncHandler
    /\ ret = NoRet

NextAsyncLog ==
    \/ Idle /\ StartNestedOps({1}, {1})
    \/ AsyncLogc(1, 1, LevelInfo, << >>)
    \/ AsyncWorker
    \/ Observe

SpecAsyncLog == InitAsyncLog /\ [][NextAsyncLog]_vars

\* An asynchronous handler in use: callers log and shut down while the
\* worker drains the queue.
NextAsyncShutdown ==
    \/ \E r \in Records : AsyncHandle(r)
    \/ AsyncWorker
    \/ AsyncWorkerExit
    \/ \E g \in {1, 2} : AsyncClose(g)
    \/ \E g \in {1, 2} : AsyncShutdownReturn(g)

SpecAsyncShutdown == InitAsync /\ [][NextAsyncShutdown]_vars

\* The same with a worker goroutine the scheduler keeps running.
SpecAsyncFair ==
    /\ InitAsync
    /\ [][NextAsyncShutdown]_vars
    /\ WF_vars(AsyncWorker)
    /\ WF_vars(AsyncWorkerExit)

\* The handler Setup made and the handlers derived from it, all logging,
\* and the shutdown handle of Setup, which closes the handler Setup made.
NextDerived ==
    \/ AsyncWithAttrs
    \/ \E d \in 1..MaxDerived, r \in Records : DerivedHandle(d, r)
    \/ \E d \in 1..MaxDerived : DerivedWorker(d)
    \/ \E r \in Records : AsyncHandle(r)
    \/ AsyncWorker
    \/ AsyncWorkerExit
    \/ AsyncClose(1)
    \/ AsyncShutdownReturn(1)

SpecDerived == InitAsync /\ [][NextDerived]_vars

\* A request handled by one call chain: no container exists before the
\* request; the chain instruments the request and passes each context it
\* got on to the next StartSpanFromCtx.
InitRequest ==
    /\ apmType \in APMTypes
    /\ logLevel = LevelDebug
    /\ traceLogLevel = LevelInfo
    /\ obsCtx = [o \in ObsIds |-> NilCtx]
    /\ handles = [h \in HandleIds |-> ZeroHandle]
    /\ created = {}
    /\ pool = {}
    /\ held = [g \in Chains |-> {}]
    /\ spans = [s \in SpanIds |-> ZeroSpan]
    /\ nextSpan = 0
    /\ last = NoLast
    /\ hist = [ambient |-> [s \in SpanIds |-> NilCtx], lifo |-> TRUE]
    /\ calls = [g \in Chains |-> NoCall]
    /\ ProcessStart

\* The contexts the chain holds after its last call.
CallerCtx(g) ==
    IF last.kind \in {"StartSpanFromRequest", "StartSpanFromCtx"}
    THEN {last.retCtx} ELSE {RootCtx(g)}

NextRequest ==
    \/ Idle /\ StartSpanFromRequest(1)
    \/ \E ctx \in CallerCtx(1) : StartSpanFromCtx(1, ctx)
    \/ Idle /\ \E h \in HandleIds : End(1, h)
    \/ Observe

SpecRequest == InitRequest /\ [][NextRequest]_vars

\* One call chain reporting errors on the spans it started, through either
\* form of ErrorHandler.Record.
NextRecord ==
    \/ Idle /\ StartNestedOps({1}, {1})
    \/ Idle /\ \E h \in HandleIds : Record(1, 1, h)
    \/ Idle /\ RecordLogOnly(1, 1)
    \/ Observe

SpecRecord == InitDefault /\ [][NextRecord]_vars

\* One call chain starting spans on one container, each under the ambient
\* context, and ending the handles it holds in any order.
NextUnordered ==
    \/ Idle /\ StartNestedOps({1}, {1})
    \/ Observe

SpecUnordered == InitDefault /\ [][NextUnordered]_vars

\* Two call chains starting and ending spans on one container, statement
\* by statement, over one pool.
InitSteps == InitDefault /\ apmType = Datadog

NextSteps ==
    \/ \E g \in {1, 2} : StartCall(g, 1)
    \/ \E g \in {1, 2} : StartStep(g)
    \/ \E g \in {1, 2}, h \in HandleIds : EndCall(g, h)
    \/ \E g \in {1, 2} : EndStep(g)

SpecSteps == InitSteps /\ [][NextSteps]_vars

\* The settings Factory.Setup chooses its components by.
SetupSettings == {"ApmType", "MetricsType", "AsynchronousLogs"}

\* A process that builds its factory and sets the components up.
InitSetup ==
    /\ TracingIdle
    /\ shutdowners = << >>
    /\ environ \in Environments(SetupSettings)
    /\ factoryConfig = NoConfig
    /\ initOnce = NewOnce
    /\ baseLogger = NoLogger
    /\ slogDefault = NoLogger
    /\ initCalls = [g \in Chains |-> NoInitCall]
    /\ records = NoRecords
    /\ ret = NoRet

NextSetup ==
    \/ /\ ~factoryConfig.built
       /\ \E opts \in OptionLists(SetupSettings) : NewFactory(opts)
    \/ \E build \in Builds, otlpOk, metricsOk \in BOOLEAN :
          Setup(build, otlpOk, metricsOk)

SpecSetup == InitSetup /\ [][NextSetup]_vars

\* Attributes of every type converted on the span path and the log path.
NextAttributes ==
    \/ \E k \in AttrKeys, v \in SpanValues : CallToAttribute(k, v)
    \/ \E k \in AttrKeys, v \in LogValues : CallToOtelAttribute(k, v)

SpecAttributes == InitInitLogger /\ [][NextAttributes]_vars

\* extractError applied to records of every shape.
NextExtract == \E r \in ErrorRecords : ExtractError(r)

SpecExtract == InitInitLogger /\ [][NextExtract]_vars

\* ------------------------------------------------------------- claims
\* Id strings as the backend in use renders them.
IdString(n) == IF apmType = OTLP THEN HexString(n) ELSE DecString(n)

KeyIndexes(r, k) == {i \in 1..Len(r.attrs) : r.attrs[i].key = k}

KeyValues(r, k) == {r.attrs[i].val : i \in KeyIndexes(r, k)}

\* A span that is started, not ended and recording.
ActiveSpan(s) == s # NoSpan /\ ~spans[s].ended /\ spans[s].recording

\* The calls of the last operation with the given name and key.
Calls(op, key) ==
    {i \in 1..Len(last.ops) : last.ops[i].op = op /\ last.ops[i].key = key}

\* C1: on one call chain and one container with an enabled backend, the
\* container's context right after a span's End is the context that was
\* ambient when that span was started; and as long as the Ends are properly
\* nested the ambient context is the context of the innermost live span, or
\* the initial context once every span is ended, however many siblings were
\* started and ended in between.
C1_EndRestoresStartAmbient ==
    /\ [](hist.lifo =>
            Context(1) = IF Live = {} THEN Background
                         ELSE spans[Innermost].ctx)
    /\ [][last'.kind = "End" =>
            obsCtx'[last'.obs] = hist.ambient[last'.span]]_vars

\* Start A, start B, end B, start C, end C, end A: back to the first context.
C1_Witness ==
    /\ last.kind = "End" /\ last.span = 1
    /\ hist.lifo /\ nextSpan >= 3 /\ Live = {}
    /\ spans[2].parent = 1 /\ spans[3].parent = 1
    /\ Context(1) = Background

\* C2: a record logged through the container's logger after properly nested
\* Starts and Ends carries the span.id of the innermost span still live (the
\* outer one once the inner one is ended) and no other span id.
C2_LogCorrelatesWithLiveSpan ==
    (last.kind = "Logc" /\ last.enabled /\ hist.lifo /\ Live # {}) =>
        /\ Len(last.sink) = 1
        /\ KeyValues(last.sink[1], "span.id") = {IdString(Innermost)}

\* Outer started, inner started under it and ended, then a record logged.
C2_Witness ==
    /\ last.kind = "Logc" /\ last.enabled /\ hist.lifo
    /\ Live = {1} /\ nextSpan >= 2 /\ spans[2].ended /\ spans[2].parent = 1
    /\ Len(last.sink) = 1
    /\ KeyValues(last.sink[1], "span.id") = {IdString(1)}

\* C3: with the disabled backend Start returns the context it was given and
\* the no-op span, and neither Start nor a method of that span changes the
\* container's context, the pool, the handles or the spans.
C3_DisabledIsFrameOnly ==
    [][(apmType = None /\ last'.kind \in {"Start", "NoOpMethod"}) =>
          /\ UNCHANGED <<obsCtx, handles, created, pool, spans, nextSpan>>
          /\ last'.ops = << >>
          /\ last'.kind = "Start" =>
                (last'.retCtx = last'.argCtx /\ last'.handle = NoOpHandle)]_vars

\* End called on the no-op span a disabled Start returned.
C3_Witness ==
    /\ apmType = None /\ last.kind = "NoOpMethod" /\ last.method = "End"
    /\ NoOpHandle \in held[1]

\* C4: the record the sink receives from Handle carries trace.id and span.id,
\* once each, exactly when the backend is enabled and ctx holds a span, with
\* that span's ids, at every severity (also below the attachment threshold).
C4_CorrelationIffSpan ==
    last.kind = "Handle" =>
        /\ Len(last.sink) = 1
        /\ LET r == last.sink[1]
               has == apmType # None /\ last.span # NoSpan
           IN  /\ Cardinality(KeyIndexes(r, "trace.id")) = IF has THEN 1 ELSE 0
               /\ Cardinality(KeyIndexes(r, "span.id")) = IF has THEN 1 ELSE 0
               /\ has => /\ KeyValues(r, "trace.id")
                              = {IdString(spans[last.span].trace)}
                         /\ KeyValues(r, "span.id") = {IdString(last.span)}

\* A record below the attachment threshold written with its trace.id.
C4_Witness ==
    /\ last.kind = "Handle" /\ last.level < traceLogLevel
    /\ last.span # NoSpan /\ Len(last.sink) = 1
    /\ Cardinality(KeyIndexes(last.sink[1], "trace.id")) = 1

C6_ErrorRecordedOnce ==
    (last.kind = "Handle" /\ apmType # None /\ ActiveSpan(last.span)
        /\ last.level >= LevelError) =>
        IF apmType = OTLP
        THEN /\ Cardinality(Calls("RecordError", "")) = 1
             /\ \A i \in Calls("RecordError", "") :
                    last.ops[i].val = extractError(NewRecord(last.level, last.attrs))
             /\ Cardinality(Calls("SetStatus", "Error")) = 1
             /\ \A i \in Calls("SetStatus", "Error") : last.ops[i].val = Message
             /\ Calls("AddEvent", "") = {}
        ELSE /\ Cardinality(Calls("SetTag", "error")) = 1
             /\ Cardinality(Calls("SetTag", "status")) = 1
             /\ Calls("SetTag", "event") = {}

\* C7: a record logged through Log while a span is active is attached to the
\* span exactly when its severity reaches the attachment threshold and is
\* written to the sink exactly when its severity reaches the sink's minimum,
\* each independently of the other.
C7_ThresholdsIndependent ==
    (last.kind = "Logc" /\ apmType # None /\ ActiveSpan(last.span)) =>
        /\ (last.ops # << >>) <=> (last.level >= traceLogLevel)
        /\ (last.sink # << >>) <=> (last.level >= logLevel)

\* C8: every Handle writes the record to the wrapped sink exactly once, as
\* its last step, after whatever the attachment did; the record written is
\* the one handed in, extended by the correlation attributes only.
C8_SinkWrittenOnceLast ==
    last.kind = "Handle" =>
        /\ Len(last.sink) = 1
        /\ last.order # << >>
        /\ last.order[Len(last.order)] = "sink"
        /\ \A i \in 1..(Len(last.order) - 1) : last.order[i] = "span"
        /\ last.sink[1].level = last.level
        /\ last.sink[1].msg = Message
        /\ Len(last.sink[1].attrs) >= Len(last.attrs)
        /\ SubSeq(last.sink[1].attrs, 1, Len(last.attrs)) = last.attrs

\* An error record attached to the span and then written.
C8_Witness ==
    /\ last.kind = "Handle" /\ last.level >= LevelError
    /\ Len(last.ops) >= 2 /\ Len(last.sink) = 1
    /\ last.order[Len(last.order)] = "sink"

\* C9: no Start, End or log operation changes the context held in a
\* container, every span is parented on a span of its own call chain, and
\* every record is correlated with a span of the chain that logged it.
C9_SharedContainerSafe ==
    /\ [][last'.kind \in {"Start", "StartSpan", "End", "Logc"} =>
            \A o \in ObsIds : Built(o) => obsCtx'[o] = obsCtx[o]]_vars
    /\ [](\A s \in 1..nextSpan :
            spans[s].parent # NoSpan =>
                spans[spans[s].parent].chain = spans[s].chain)
    /\ []((last.kind = "Logc" /\ last.span # NoSpan) =>
            spans[last.span].chain = last.chain)

\* C10: StartSpan returns a new container holding the new span's context and
\* leaves the context of the container it was called on as it was.
C10_StartSpanLeavesReceiver ==
    [][last'.kind = "StartSpan" =>
          /\ ~Built(last'.clone)
          /\ obsCtx'[last'.clone] = last'.retCtx
          /\ obsCtx'[last'.obs] = obsCtx[last'.obs]]_vars

\* Handles held by the call chains (the no-op handle has no storage).
HeldBy(g) == held[g] \ {NoOpHandle}

\* C11: pool safety. Handles that are started and not yet ended never share
\* a pooled object, across call chains or within one; a held object is not in
\* the pool and holds exactly the native span, container and parent context
\* of the Start that returned it; pooled objects are reset; and a method
\* called on a held handle reaches only that handle's span, which belongs to
\* the calling chain.
C11_PoolSafety ==
    /\ \A g1 \in Chains, g2 \in Chains :
          g1 # g2 => HeldBy(g1) \cap HeldBy(g2) = {}
    /\ \A g \in Chains : \A h \in HeldBy(g) :
          /\ h \notin pool
          /\ handles[h].span \in 1..nextSpan
          /\ spans[handles[h].span].chain = g
          /\ ~spans[handles[h].span].ended
          /\ Built(handles[h].obs)
          /\ handles[h].parentCtx = hist.ambient[handles[h].span]
    /\ \A g1 \in Chains, g2 \in Chains :
          \A h1 \in HeldBy(g1), h2 \in HeldBy(g2) :
             h1 # h2 => handles[h1].span # handles[h2].span
    /\ \A h \in pool : handles[h] = ZeroHandle
    /\ (last.kind = "Start" /\ last.handle # NoOpHandle) =>
          handles[last.handle] = [span |-> last.span, obs |-> last.obs,
                                  parentCtx |-> last.ambient]
    /\ last.kind = "SpanMethod" =>
          \A i \in 1..Len(last.ops) :
             /\ last.ops[i].span = last.span
             /\ spans[last.ops[i].span].chain = last.chain

\* Two chains each hold a live handle, more spans were started than objects
\* made (an object was reused), and a method was just called on one handle.
C11_Witness ==
    /\ last.kind = "SpanMethod"
    /\ Len(last.ops) > 0
    /\ nextSpan > Cardinality(created)
    /\ \E g \in Chains : g # last.chain /\ HeldBy(g) # {}
    /\ last.handle \in HeldBy(last.chain)

\* Constituents whose Shutdown returned an error in the last call, in order.
Failed(outs) == {i \in 1..Len(outs) : outs[i] = "err"}

\* C12: a compositeShutdowner.Shutdown that returns has called Shutdown on
\* every constituent exactly once, in order, whatever earlier constituents
\* returned; it returns nil exactly when no constituent failed, and otherwise
\* one joined error holding the error of every failed constituent and no
\* other.
C12_ShutdownCallsAllJoinsAll ==
    (ret.op = "Shutdown" /\ ret.returned) =>
        /\ ret.calls = [i \in 1..Len(shutdowners) |-> i]
        /\ (ret.err = NilErr) <=> (Failed(ret.outs) = {})
        /\ {ret.err.joined[i] : i \in 1..Len(ret.err.joined)}
              = Failed(ret.outs)
        /\ Len(ret.err.joined) = Cardinality(Failed(ret.outs))

\* A Shutdown returned after an early constituent failed, a later one
\* succeeded and yet another failed.
C12_Witness ==
    /\ ret.op = "Shutdown"
    /\ ret.returned
    /\ \E i, j, k \in 1..Len(shutdowners) :
          /\ i < j /\ j < k
          /\ ret.outs[i] = "err" /\ ret.outs[j] = "nil" /\ ret.outs[k] = "err"
    /\ Len(ret.err.joined) = 2

\* C19: ShutdownOrLog always gives control back to its caller, raises
\* nothing, returns no error, and logs the failure of the shutdown if any.
C19_ShutdownOrLogBounded ==
    ret.op = "ShutdownOrLog" =>
        /\ ret.returned
        /\ ~ret.raised
        /\ ret.err = NilErr
        /\ (Failed(ret.outs) # {}) => Len(ret.logged) = 1

\* The logger built from the arguments of the call that entered Do first.
FirstLogger == BuildLogger(initOnce.owner, initOnce.args)

\* C13: logger registration is idempotent. The default logger and the base
\* logger are each written only while unset, by the call that entered Do
\* first and with the logger built from that call's arguments; a call made
\* after Do is done changes none of the globals; every call that has
\* returned got the base logger, which is that first logger; and at every
\* moment each global holds either no logger or that whole logger.
C13_InitLoggerOnce ==
    /\ [][(baseLogger' # baseLogger) =>
            (baseLogger = NoLogger /\ baseLogger' = FirstLogger)]_vars
    /\ [][(slogDefault' # slogDefault) =>
            (slogDefault = NoLogger /\ slogDefault' = FirstLogger)]_vars
    /\ [][(initOnce.state = "done") =>
            UNCHANGED <<initOnce, baseLogger, slogDefault>>]_vars
    /\ [](ret.op = "initLogger" =>
            /\ ret.result = FirstLogger
            /\ baseLogger = FirstLogger
            /\ slogDefault = FirstLogger)
    /\ [](initOnce.state = "new" => (baseLogger = NoLogger
                                      /\ slogDefault = NoLogger))
    /\ [](initOnce.state # "new" =>
            /\ baseLogger \in {NoLogger, FirstLogger}
            /\ slogDefault \in {NoLogger, FirstLogger})

\* A call has returned the logger that another chain's call registered,
\* built from arguments that differ from its own.
C13_Witness ==
    /\ ret.op = "initLogger"
    /\ ret.chain # initOnce.owner
    /\ ret.args.apmType # initOnce.args.apmType
    /\ ret.args.async # initOnce.args.async
    /\ ret.result = baseLogger
    /\ baseLogger.apmType = initOnce.args.apmType
    /\ \E g \in Chains : g # ret.chain /\ initCalls[g].pc = "wait"

\* C14: a tracing or logging call made before the factory is initialised,
\* on a container from ObsFromCtx for a context without container or from
\* NewObservability, terminates normally.
C14_PreInitDegrades ==
    (ret.op \in ObsOps /\ ~ret.initialized) => ret.outcome = "ok"

\* str is word written in some mix of upper-case and lower-case letters.
IsCasingOf(str, word) ==
    /\ Len(str) = Len(word)
    /\ \A i \in 1..Len(word) : str[i] \in {word[i], ToUpperRune(word[i])}

\* C16: normalizeAPMType gives OTLP for every casing of "otlp", Datadog for
\* every casing of "datadog", None for every casing of "none" and for every
\* other string, the empty one included; the result is one of the three
\* values and normalising its string again gives the same value.
C16_NormalizeAPMType ==
    ret.op = "normalizeAPMType" =>
        /\ ret.val \in APMTypes
        /\ \A t \in APMTypes :
              IsCasingOf(ret.arg, APMString(t)) => ret.val = t
        /\ (\A t \in APMTypes : ~IsCasingOf(ret.arg, APMString(t)))
              => ret.val = None
        /\ ret.arg = << >> => ret.val = None
        /\ normalizeAPMType(APMString(ret.val)) = ret.val
        /\ Spell(APMString(ret.val)) = ret.val

\* A mixed-case spelling of "datadog" was normalised to Datadog.
C16_Witness ==
    /\ ret.op = "normalizeAPMType"
    /\ ret.arg = <<"D", "a", "t", "a", "D", "o", "g">>
    /\ ret.val = Datadog

\* C17: in the configuration NewFactory builds, a setting that an option
\* set holds the option's value, whatever the environment holds and also
\* when that value is the built-in default; a setting that no option set
\* holds the value its environment variable parses to, or the default when
\* the variable is unset or malformed.
C17_OptionsBeatEnvironment ==
    ret.op = "NewFactory" =>
        \A k \in Settings :
            LET cur == factoryConfig.settings[k]
            IN  IF k \in DOMAIN ret.opts
                THEN cur.Value = OptionValue(k, ret.opts[k])
                ELSE IF Getenv(k) # EmptyString(k) /\ ParseEnv(k, Getenv(k)).ok
                THEN cur.Value = ParseEnv(k, Getenv(k)).val
                ELSE cur.Value = DefaultValue(k)

Supported(str) ==
    \E word \in {APMString(t) : t \in APMTypes} : IsCasingOf(str, word)

\* C15: for every backend-selection string that is not one of the supported
\* backend names, setupTracing and therefore Factory.Setup returns the
\* unsupported-backend error and no shutdown handle.
C15_UnknownBackendFails ==
    (ret.op = "Setup" /\ ~Supported(ret.apmType)) =>
        /\ ret.err = [stage |-> "tracing", cause |-> "unsupported APM type"]
        /\ ret.shutdowner = "nil"

\* The semantic type the conversion supports a value as: the types with a
\* case of their own in the two switches; everything else is "other".
SemanticType(v) ==
    CASE v.type \in {"string", "KindString"} -> "string"
      [] v.type \in {"int", "int64", "KindInt64", "KindUint64"} -> "integer"
      [] v.type \in {"float64", "KindFloat64"} -> "float"
      [] v.type \in {"bool", "KindBool"} -> "boolean"
      [] OTHER -> "other"

\* C20: ToAttribute and toOtelAttribute map a string, integer, float or
\* boolean value to the attribute of the corresponding kind holding the same
\* value under the same key (an unsigned 64-bit integer of the log path to
\* the signed-integer kind), a value of any other type to a string
\* attribute holding its textual representation, and never fail.
C20_AttributeConversion ==
    ret.op \in {"ToAttribute", "toOtelAttribute"} =>
        /\ ret.returned
        /\ ret.out.key = ret.key
        /\ CASE SemanticType(ret.in) = "string" ->
                    ret.out.kind = "STRING" /\ ret.out.text = ret.in.text
             [] SemanticType(ret.in) = "integer" ->
                    ret.out.kind = "INT64" /\ ret.out.num = ret.in.num
             [] SemanticType(ret.in) = "float" ->
                    ret.out.kind = "FLOAT64" /\ ret.out.num = ret.in.num
             [] SemanticType(ret.in) = "boolean" ->
                    ret.out.kind = "BOOL" /\ ret.out.flag = ret.in.flag
             [] OTHER ->
                    ret.out.kind = "STRING" /\ ret.out.text = Sprint(ret.in)

\* C21: with an enabled backend and an active span, one record whose
\* severity reaches the attachment threshold and is below error makes
\* exactly one AddEvent with the record's message and attributes on that
\* span (tag-only backend: one write of the reserved "event" tag holding the
\* message) and no RecordError and no SetStatus (tag-only backend: no write
\* of the reserved "error" and "status" tags).
C21_InfoRecordIsOneEvent ==
    (last.kind = "Handle" /\ apmType # None /\ ActiveSpan(last.span)
        /\ last.level >= traceLogLevel /\ last.level < LevelError) =>
        IF apmType = OTLP
        THEN /\ Cardinality(Calls("AddEvent", "")) = 1
             /\ \A i \in Calls("AddEvent", "") :
                    /\ last.ops[i].span = last.span
                    /\ last.ops[i].val = Message
                    /\ SubSeq(last.ops[i].attrs, 1, Len(last.attrs))
                          = OtelAttrs(last.attrs)
             /\ Calls("RecordError", "") = {}
             /\ Calls("SetStatus", "Error") = {}
        ELSE /\ Cardinality(Calls("SetTag", "event")) = 1
             /\ \A i \in Calls("SetTag", "event") :
                    last.ops[i].span = last.span /\ last.ops[i].val = Message
             /\ Calls("SetTag", "error") = {}
             /\ Calls("SetTag", "status") = {}

\* C22: extractError returns the value of the record's first attribute whose
\* key is "error" and whose value is an error; when there is none (no
\* "error" attribute, or only non-error values under that key) it returns a
\* new error whose text is the record's message; it never returns nil.
C22_ExtractError ==
    ret.op = "extractError" =>
        LET a == ret.rec.attrs
            idx == {i \in 1..Len(a) : a[i].key = "error" /\ a[i].kind = "error"}
        IN  /\ ret.result # NilError
            /\ IF idx # {}
               THEN \E i \in idx : /\ \A j \in idx : i <= j
                                   /\ ret.result = a[i].val
               ELSE ret.result = ErrorsNew(ret.rec.msg)

\* A text under the key "error" comes first, then two errors under it: the
\* first of the two is returned.
C22_Witness ==
    /\ ret.op = "extractError"
    /\ ret.rec.attrs = <<TextAttr, Err2Attr, ErrAttr>>
    /\ ret.result = Err2Attr.val

\* C23: with asynchronous logging, a record logged through Log while a span
\* was active in the container's context is written to the sink with that
\* span's trace.id and span.id, and, when its severity reaches the
\* attachment threshold and the span is still active, is attached to that
\* span, as with synchronous logging.
C23_AsyncKeepsCorrelation ==
    (ret.op = "asyncHandler.worker" /\ apmType # None
        /\ ret.rec.from # NoSpan) =>
        /\ Len(ret.out.sink) = 1
        /\ KeyValues(ret.out.sink[1], "trace.id")
              = {IdString(spans[ret.rec.from].trace)}
        /\ KeyValues(ret.out.sink[1], "span.id") = {IdString(ret.rec.from)}
        /\ (ret.rec.level >= traceLogLevel /\ ActiveSpan(ret.rec.from)) =>
              /\ ret.out.ops # << >>
              /\ \A i \in 1..Len(ret.out.ops) :
                    ret.out.ops[i].span = ret.rec.from

\* The statements of the End of chain g that are still to run and read or
\* write the fields of its object.
PendingAccess(g) ==
    {EndSteps[j] : j \in calls[g].i..Len(EndSteps)} \ {"put"}

\* The fields a Start gave the object that carries span s on container o.
FieldsOf(s, o) == [span |-> s, obs |-> o, parentCtx |-> hist.ambient[s]]

\* C24: within unifiedSpan.End the ambient context is restored to the parent
\* context captured at Start before the fields are cleared and the storage
\* goes back to the pool: while a statement of End that touches the object
\* is still to run, the object is neither in the pool nor in the hands of
\* another call, its fields are intact until the restore has read them,
\* the context End wrote is the one captured at Start, and a Start that
\* takes storage from the pool finds every field empty and keeps every
\* field it writes.
C24_EndReleasesLast ==
    /\ \A g \in Chains :
          (calls[g].op = "End" /\ PendingAccess(g) # {}) =>
             /\ calls[g].h \notin pool
             /\ \A g2 \in Chains \ {g} :
                   /\ calls[g].h \notin held[g2]
                   /\ calls[g2].op # "none" => calls[g2].h # calls[g].h
             /\ "restore" \in PendingAccess(g) =>
                   handles[calls[g].h] = FieldsOf(calls[g].span, calls[g].o)
    /\ \A g \in Chains :
          (calls[g].op = "End" /\ "restore" \notin PendingAccess(g)) =>
             calls[g].parentCtx = hist.ambient[calls[g].span]
    /\ \A g \in Chains :
          calls[g].op = "Start" =>
             /\ calls[g].i >= 3 => calls[g].got = ZeroHandle
             /\ calls[g].i >= 4 =>
                   /\ handles[calls[g].h].obs = calls[g].o
                   /\ handles[calls[g].h].parentCtx = calls[g].parentCtx
             /\ calls[g].i >= 5 => handles[calls[g].h].span = calls[g].span
    /\ \A g \in Chains : \A h \in held[g] \ {NoOpHandle} :
          /\ handles[h].span # NoSpan
          /\ handles[h] = FieldsOf(handles[h].span, handles[h].obs)

\* One chain's End has restored the context and is about to clear the
\* fields while the other chain's Start is writing the fields of storage
\* it took back from the pool.
C24_Witness ==
    /\ calls[1].op = "End"
    /\ EndSteps[calls[1].i] = "clear"
    /\ calls[1].parentCtx = hist.ambient[calls[1].span]
    /\ calls[2].op = "Start"
    /\ calls[2].reused
    /\ calls[2].i = 4

\* C25: whatever the order in which the handles started on one container
\* are ended, each once, the ambient context of the container never holds
\* a span that has ended, and when every span has ended it is the context
\* that was ambient before the first Start.
C25_AmbientNeverEnded ==
    /\ SpanFromContext(Context(1)) # NoSpan =>
          ~spans[SpanFromContext(Context(1))].ended
    /\ (nextSpan > 0 /\ Live = {} /\ held[1] \subseteq {NoOpHandle}) =>
          Context(1) = Background

\* C26: no interleaving of Handle and Shutdown on an asynchronous handler
\* sends on a closed queue or closes the queue a second time: logging
\* after or during Shutdown and a repeated Shutdown never crash.
C26_NoSendOrCloseOnClosed == "outcome" \in DOMAIN ret => ret.outcome # "panic"

\* The queue changes in two ways only: Handle appends the record it
\* accepted while the queue is open, and the worker takes the oldest record
\* and passes it to the wrapped handler.
QueueStep ==
    \/ records'.buf = records.buf
    \/ /\ ret'.op = "asyncHandler.Handle"
       /\ ~records.closed
       /\ records'.buf = Append(records.buf, ret'.rec)
    \/ /\ ret'.op = "asyncHandler.worker"
       /\ records.buf = <<ret'.rec>> \o records'.buf
       /\ ret'.out = HandleResult(Background, ret'.rec)

\* C27: every record the handler accepted before Shutdown is passed to the
\* wrapped handler exactly once and in the order of acceptance, all of them
\* before Shutdown returns; with a worker that keeps being scheduled every
\* accepted record is eventually written.
C27_AcceptedRecordsAreWritten ==
    /\ [][QueueStep]_vars
    /\ [](records.worker = "exited" => records.closed /\ records.buf = << >>)
    /\ [](records.waiting # {} => records.closed)
    /\ [](ret.op = "asyncHandler.Shutdown" =>
            records.worker = "exited" /\ records.buf = << >>)
    /\ \A r \in Records :
          (\E j \in 1..Len(records.buf) : records.buf[j] = r)
             ~> (ret.op = "asyncHandler.worker" /\ ret.rec = r)

\* Shutdown has closed the queue and waits while the worker writes the
\* second of the records accepted before the close.
C27_Witness ==
    /\ ret.op = "asyncHandler.worker"
    /\ records.closed
    /\ records.waiting # {}
    /\ records.worker = "running"
    /\ Len(ret.before) >= 1
    /\ Len(records.buf) >= 1

\* C28: the shutdown handle covers the handlers derived by Log.With,
\* WithAttrs and WithGroup: once Shutdown has returned no derived handler
\* holds an accepted record that was not written and no derived worker is
\* still running.
C28_ShutdownCoversDerived ==
    ret.op = "asyncHandler.Shutdown" =>
       \A d \in 1..Len(records.derived) :
          /\ records.derived[d].buf = << >>
          /\ records.derived[d].worker = "exited"

\* The native calls of the last operation with the given name.
CallsOf(op) == {i \in 1..Len(last.ops) : last.ops[i].op = op}

\* C29: one ErrorHandler.Record call for an error on the span that is
\* active in the container's context makes, on the OTLP backend, exactly
\* one RecordError and exactly one SetStatus on that span and writes
\* exactly one error-level record to the sink.
C29_RecordReportsOnce ==
    (last.kind = "Record" /\ apmType = OTLP /\ ActiveSpan(last.span)
        /\ SpanFromContext(last.argCtx) = last.span) =>
        /\ Cardinality(CallsOf("RecordError")) = 1
        /\ Cardinality(CallsOf("SetStatus")) = 1
        /\ \A i \in CallsOf("RecordError") \cup CallsOf("SetStatus") :
               last.ops[i].span = last.span
        /\ Len(last.sink) = 1
        /\ last.sink[1].level = LevelError

\* The values the caller had put into ctx: the request roots.
CallerValues(ctx) ==
    {ctx[i] : i \in {j \in 1..Len(ctx) : ctx[j] \in {0 - g : g \in Chains}}}

\* C30: with an enabled backend the context returned by
\* Factory.StartSpanFromRequest, StartSpanFromCtx and StartSpanFromCtxWith
\* carries the container: ObsFromCtx on it finds a container whose context
\* holds the span just started; a chain of StartSpanFromCtx calls never
\* falls back to the disabled default container and parents each span to
\* the span of the context it was given, and the values of the caller's
\* context stay reachable from the returned one.
C30_ReturnedContextCarriesContainer ==
    (last.kind \in {"StartSpanFromRequest", "StartSpanFromCtx"}
        /\ apmType # None
        /\ (last.kind = "StartSpanFromCtx" => ObsValue(last.argCtx) # NoObs)) =>
        /\ ObsValue(last.retCtx) # NoObs
        /\ last.handle # NoOpHandle
        /\ SpanFromContext(last.retCtx) = last.span
        /\ SpanFromContext(Context(ObsValue(last.retCtx))) = last.span
        /\ spans[last.span].parent = SpanFromContext(last.argCtx)
        /\ CallerValues(last.argCtx) \subseteq CallerValues(last.retCtx)

====
